---- MODULE Spec2Model ----
(***************************************************************************)
(* NerdTracker: ingestion of location fixes with "hangout" deduplication.  *)
(*                                                                         *)
(* Two versions of the location-inserter worker exist in the repository:   *)
(*   "table": location-inserter/src/index.ts reads the recent locations,   *)
(*            classifies in the worker and then updates or inserts the     *)
(*            table `locations` (three separate round trips);              *)
(*   "view" : the worker inserts into the view `locations_no_dups`, whose  *)
(*            INSTEAD OF INSERT trigger (db/universal.sql) classifies and  *)
(*            writes inside the database.                                  *)
(* The variable `deployed` says which of the two serves the requests.      *)
(*                                                                         *)
(* Coordinates.  All fixes lie on the meridian lon = 0, and a latitude is  *)
(* an integer number of angular units.  On one meridian the Haversine      *)
(* formula of calculateDistance reduces to R * |dlat|, and so does         *)
(* earth_distance of the earthdistance extension, with its own radius:     *)
(* R = 6371000 m in index.ts, earth() = 6378168 m in the extension.  Since *)
(* 6378168 / 6371000 = 797271 / 796375, the unit is chosen so that one     *)
(* metre is TsPerMetre = 797271 units for calculateDistance and            *)
(* PgPerMetre = 796375 units for earth_distance; both distances are then   *)
(* integers: |lat1 - lat2|, read in the respective scale.                  *)
(***************************************************************************)
EXTENDS Integers, Sequences, FiniteSets, TLC

VARIABLES deployed, locations, seq, clock, started, pc, body, window,
          decision, target, wrote, resp, store0, cleanup, archive, typedBody,
          app, reporter, dist

vars == <<deployed, locations, seq, clock, started, pc, body, window,
          decision, target, wrote, resp, store0, cleanup, archive, typedBody,
          app, reporter, dist>>

---------------------------------------------------------------------------
(* Bounds of the model *)

\* number of requests served in one behaviour
MaxReq == 2
\* number of freely chosen rows at the end of an export given to the batch
\* cleanup
MaxFix == 4
\* number of scheduled runs of the archive worker in one behaviour
MaxRuns == 3
\* largest number of rows already stored when the behaviour starts
MaxSeed == 5

Workers == {"w1", "w2"}
Trackers == {"AB", "BC"}

---------------------------------------------------------------------------
(* Values *)

\* SQL NULL / JSON null in a numeric column or field
Null == 0 - 1
\* a key that is absent from the JSON object (JavaScript undefined)
Undef == 0 - 2
\* JavaScript NaN
NaN == 0 - 3
\* fetch ends with an uncaught exception: the worker returns no Response
Exception == 0 - 4
\* JavaScript Infinity: larger than every distance of the model
Infinity == 2000000000

TsPerMetre == 797271
PgPerMetre == 796375

HANGOUT_SILENCE_DIST == 100
LAST_LOCATIONS_COUNT == 10
MIN_LOCATIONS_IN_RANGE == 5

RECENT_LOCATIONS_LIMIT == 10
MAX_PROXIMITY_METERS == 100
MIN_WITHIN_RANGE == 5

\* Latitudes of the fixes, in angular units:
\*   Home             where the rows of the initial store lie,
\*   Home - PgEdge    exactly 100 m from Home for earth_distance
\*                    (99.89 m for calculateDistance),
\*   Home + Metres13  13 m from Home ("~13 m away"),
\*   Home + TsEdge    exactly 100 m from Home for calculateDistance
\*                    (100.11 m for earth_distance).
\* Home - PgEdge and Home + TsEdge are 199.89 m apart: out of range.
PgEdge == MAX_PROXIMITY_METERS * PgPerMetre
TsEdge == HANGOUT_SILENCE_DIST * TsPerMetre
Metres13 == 13 * TsPerMetre
Home == PgEdge
Lats == {Home - PgEdge, Home, Home + Metres13, Home + TsEdge}

Abs(x) == IF x < 0 THEN 0 - x ELSE x

Max(S) == CHOOSE x \in S : \A y \in S : y <= x
Min(S) == CHOOSE x \in S : \A y \in S : x <= y

---------------------------------------------------------------------------
(* The table `locations` and the payloads *)

\* A row of `locations`, restricted to the columns the classifier and the
\* claims read.  `id` is the serial primary key.
Row(id, tid, lat, lon, tst) ==
    [id |-> id, tid |-> tid, lat |-> lat, lon |-> lon, tst |-> tst]

\* The value a column gets from a JSON object: an absent key gives NULL.
Col(v) == IF v = Undef THEN Null ELSE v
ColTid(v) == IF v = "undefined" THEN "null" ELSE v

\* The row the database builds from a payload (json_populate_record /
\* PostgREST insert): every column the payload does not carry is NULL.
NewRow(id, b) == Row(id, ColTid(b.tid), Col(b.lat), Col(b.lon), Col(b.tst))

\* The rows the initial store may hold: k fixes of tracker "AB" at Home,
\* ingested one after the other with fix times 1..k.
Seed(k) == {Row(i, "AB", Home, 0, i) : i \in 1..k}
SeedSizes == {0, MaxSeed - 1, MaxSeed}

---------------------------------------------------------------------------
(* Recent-window queries *)

\* All results of "ORDER BY tst DESC LIMIT k" over the rows V: rows with equal
\* tst come in an order the database is free to choose.
RECURSIVE OrderByTstDesc(_, _)
OrderByTstDesc(V, k) ==
    IF V = {} \/ k = 0 THEN {<<>>}
    ELSE LET m == Max({r.tst : r \in V})
             tops == {r \in V : r.tst = m}
         IN  UNION {{<<r>> \o s : s \in OrderByTstDesc(V \ {r}, k - 1)} : r \in tops}

\* A slip in the select: the filter on lat is left out.
SelectLastLocations_anyLat(rows, b) ==
    OrderByTstDesc({r \in rows : r.lon # Null /\ r.tst # Null},
                   LAST_LOCATIONS_COUNT)

\* index.ts: .from('locations').select('*').not(lat/lon/tst, 'is', null)
\*           .order('tst', desc).limit(LAST_LOCATIONS_COUNT); no tid filter.
SelectLastLocations(rows, b) ==
    OrderByTstDesc({r \in rows : r.lat # Null /\ r.lon # Null /\ r.tst # Null},
                   LAST_LOCATIONS_COUNT)

\* A slip: NULL is taken to be equal to NULL (IS NOT DISTINCT FROM).
TriggerRecentLocations_nullEqual(rows, new) ==
    OrderByTstDesc({r \in rows : /\ r.lat # Null /\ r.lon # Null /\ r.tst # Null
                                 /\ r.tid = new.tid},
                   RECENT_LOCATIONS_LIMIT)

\* universal.sql: the FOR rec IN SELECT ... of the trigger; loc.tid = NEW.tid
\* is never true when NEW.tid is NULL.
TriggerRecentLocations(rows, new) ==
    OrderByTstDesc({r \in rows : /\ r.lat # Null /\ r.lon # Null /\ r.tst # Null
                                 /\ new.tid # "null" /\ r.tid = new.tid},
                   RECENT_LOCATIONS_LIMIT)

---------------------------------------------------------------------------
(* Distance *)

\* JavaScript Number(): undefined -> NaN, null -> 0, a number -> itself.
Number(v) == IF v = Undef \/ v = NaN THEN NaN ELSE IF v = Null THEN 0 ELSE v

\* The Haversine formula for two points of one meridian (lon1 = lon2):
\* a = sin^2(dphi/2), c = |dphi|, R * c = |lat2 - lat1| in units of
\* 1/TsPerMetre m.
Haversine(lat1, lon1, lat2, lon2) == Abs(lat2 - lat1)

calculateDistance(lat1, lon1, lat2, lon2) ==
    LET numLat1 == Number(lat1)
        numLon1 == Number(lon1)
        numLat2 == Number(lat2)
        numLon2 == Number(lon2)
    IN  IF numLat1 = NaN \/ numLon1 = NaN \/ numLat2 = NaN \/ numLon2 = NaN
        THEN Infinity
        ELSE Haversine(numLat1, numLon1, numLat2, numLon2)

\* index.ts line 96: isWithinRange: distance <= HANGOUT_SILENCE_DIST
isWithinRange(distance) == distance <= HANGOUT_SILENCE_DIST * TsPerMetre

\* earth_distance(ll_to_earth(lat1, lon1), ll_to_earth(lat2, lon2)) for two
\* points of one meridian, in units of 1/PgPerMetre m; NULL when an argument
\* is NULL (the functions are STRICT).
earth_distance(lat1, lon1, lat2, lon2) ==
    IF lat1 = Null \/ lon1 = Null \/ lat2 = Null \/ lon2 = Null
    THEN Null
    ELSE Abs(lat2 - lat1)

\* universal.sql lines 104-107: is_close := earth_distance(...) < MAX_PROXIMITY_METERS;
\* a NULL distance gives a NULL is_close, which no IF takes for true.
is_close(d) == d # Null /\ d < MAX_PROXIMITY_METERS * PgPerMetre

---------------------------------------------------------------------------
(* The classifiers *)

\* index.ts lines 79-143: the decision of the worker on the rows it read.
distances(cleanBody, lastLocationsData) ==
    [i \in 1..Len(lastLocationsData) |->
        calculateDistance(Number(cleanBody.lat), Number(cleanBody.lon),
                          Number(lastLocationsData[i].lat),
                          Number(lastLocationsData[i].lon))]

withinRangeCount(cleanBody, lastLocationsData) ==
    Cardinality({i \in 1..Len(lastLocationsData) :
                    isWithinRange(distances(cleanBody, lastLocationsData)[i])})

\* A slip in the threshold test: more than MIN_LOCATIONS_IN_RANGE needed.
hasEnoughLocationsInRange_strict(n) == n > MIN_LOCATIONS_IN_RANGE

hasEnoughLocationsInRange(n) == n >= MIN_LOCATIONS_IN_RANGE

WorkerDecision(cleanBody, lastLocationsData) ==
    IF Len(lastLocationsData) > 0
    THEN LET isRecentLocationInRange ==
                 isWithinRange(distances(cleanBody, lastLocationsData)[1])
         IN  IF /\ isRecentLocationInRange
                /\ hasEnoughLocationsInRange(
                       withinRangeCount(cleanBody, lastLocationsData))
             THEN [op |-> "update", id |-> lastLocationsData[1].id]
             ELSE [op |-> "insert", id |-> 0]
    ELSE [op |-> "insert", id |-> 0]

\* universal.sql lines 94-143: the decision of the trigger on the rows of its
\* loop; most_recent_rec is the first row of the loop.
within_range_cnt(new, recs) ==
    Cardinality({i \in 1..Len(recs) :
        is_close(earth_distance(new.lat, new.lon, recs[i].lat, recs[i].lon))})

enough_within_range(n) == n >= MIN_WITHIN_RANGE

TriggerDecision(new, recs) ==
    LET is_recent_location_in_range ==
            /\ Len(recs) > 0
            /\ is_close(earth_distance(new.lat, new.lon, recs[1].lat, recs[1].lon))
    IN  IF is_recent_location_in_range /\ enough_within_range(within_range_cnt(new, recs))
        THEN [op |-> "update", id |-> recs[1].id]
        ELSE [op |-> "insert", id |-> 0]

---------------------------------------------------------------------------
(* The writes *)

\* The value column `id` gets from payload b when the row would otherwise
\* have the id own.
IdOf(b, own) == IF b.id = Undef THEN own ELSE b.id

\* PostgREST update: only the columns the payload carries are set.
UpdateRow(r, b) ==
    Row(IdOf(b, r.id),
        IF b.tid = "undefined" THEN r.tid ELSE b.tid,
        IF b.lat = Undef THEN r.lat ELSE b.lat,
        IF b.lon = Undef THEN r.lon ELSE b.lon,
        IF b.tst = Undef THEN r.tst ELSE b.tst)

\* index.ts lines 129-132: .update(cleanBody).eq('id', lastLocation.id)
UpdateById(rows, id, b) ==
    {IF r.id = id THEN UpdateRow(r, b) ELSE r : r \in rows}

\* index.ts lines 147-149 and universal.sql lines 138-142: insert with a new id
\* (index.ts: the default of the serial, for a payload without id).
InsertNew(rows, id, b) == rows \cup {NewRow(id, b)}

\* The primary key: a write that would give two rows the same id fails.
KeyFree(rows, old, new) == new = old \/ new \notin {r.id : r \in rows}

\* Slips in the coalesce of the trigger: the DELETE is left out; the INSERT is
\* left out; the row is re-inserted under a new id instead of the old one.
DeleteInsert_fresh(rows, id, b) ==
    {r \in rows : r.id # id} \cup {NewRow(Max({r.id : r \in rows}) + 1, b)}
DeleteInsert_keep(rows, id, b) == rows \cup {NewRow(id, b)}
DeleteInsert_only(rows, id, b) == {r \in rows : r.id # id}

\* universal.sql lines 129-136: NEW.id := most_recent_rec.id; DELETE; INSERT
DeleteInsert(rows, id, b) == {r \in rows : r.id # id} \cup {NewRow(id, b)}

\* One whole ingestion by the worker of index.ts on the store st = [rows, seq],
\* with nothing else running: the stores it may leave.
WorkerIngest(st, b) ==
    {LET d == WorkerDecision(b, win)
     IN  IF d.op = "update"
         THEN [rows |-> UpdateById(st.rows, d.id, b), seq |-> st.seq]
         ELSE [rows |-> InsertNew(st.rows, IdOf(b, st.seq + 1), b),
               seq |-> IF b.id = Undef THEN st.seq + 1 ELSE st.seq] :
     win \in SelectLastLocations(st.rows, b)}

\* One whole ingestion through the trigger.
TriggerIngest(st, b) ==
    {LET d == TriggerDecision(NewRow(Null, b), recs)
     IN  IF d.op = "update"
         THEN [rows |-> DeleteInsert(st.rows, d.id, b), seq |-> st.seq]
         ELSE [rows |-> InsertNew(st.rows, st.seq + 1, b), seq |-> st.seq + 1] :
     recs \in TriggerRecentLocations(st.rows, NewRow(Null, b))}

\* One whole ingestion through the deployed worker.
IngestOn(st, b) == IF deployed = "table" THEN WorkerIngest(st, b) ELSE TriggerIngest(st, b)

---------------------------------------------------------------------------
(* Requests *)

\* A payload is the parsed JSON object: an absent key is Undef.  `id` is a
\* key that is not in the allow-list.
Invalid ==
    [tid |-> "invalid", lat |-> Undef, lon |-> Undef, tst |-> Undef, id |-> Undef]
NoBody ==
    [tid |-> "undefined", lat |-> Undef, lon |-> Undef, tst |-> Undef, id |-> Undef]

\* Fix times a device may send: a new one, the latest one again, the first one.
Tsts(c) == {c + 1} \cup ({c, 1} \cap (1..c))

\* Payloads that lack a value: "lat": null, no "lat" key, no "tst" key.
Partials(c) ==
    {[tid |-> t, lat |-> la, lon |-> 0, tst |-> c + 1, id |-> Undef] :
        t \in Trackers, la \in {Null, Undef}}
    \cup {[tid |-> t, lat |-> Home, lon |-> 0, tst |-> Undef, id |-> Undef] :
            t \in Trackers}

\* Payloads of allow-listed keys only.
Bodies(c) ==
    {[tid |-> t, lat |-> la, lon |-> 0, tst |-> ts, id |-> Undef] :
        t \in Trackers, la \in Lats, ts \in Tsts(c)}
    \cup Partials(c)

\* Ids a client may send: the id of the first row, and an id no row has or
\* gets.
SentIds == {1, MaxSeed + MaxReq + 1}

\* A new fix of tracker "AB" at Home, and the same with an "id" key.
NewFix(c) == [tid |-> "AB", lat |-> Home, lon |-> 0, tst |-> c + 1, id |-> Undef]
WithId(c) == {[NewFix(c) EXCEPT !.id = i] : i \in SentIds}

\* A slip in the allow-list: "id" is let through.
cleanBody_keepId(typed) == typed

\* index.ts / part_007 lines 41-55: cleanBody keeps the keys of allowedFields,
\* which does not list "id".
cleanBody(typed) == [typed EXCEPT !.id = Undef]

\* The Authorization header, "<scheme> <cred>"; without a blank in it, the
\* second part of authHeader.split(' ') is undefined.  No header: null.
NoHeader == [scheme |-> "null", cred |-> "null"]
BasicRight == [scheme |-> "Basic", cred |-> "dXNlcjpwYXNz"]
AuthHeaders ==
    {NoHeader, BasicRight,
     [scheme |-> "Basic", cred |-> "dXNlcjp3cm9uZw=="],
     [scheme |-> "Basic", cred |-> "%%%"],
     [scheme |-> "Basic", cred |-> "undefined"],
     [scheme |-> "Bearer", cred |-> "dXNlcjpwYXNz"]}

\* env.AUTH_USER, env.AUTH_PASS
AUTH_USER == "user"
AUTH_PASS == "pass"

\* atob: the text a base64 string encodes; a string that is not base64
\* (atob(undefined) is atob("undefined"), of 9 characters) raises
\* InvalidCharacterError.
InvalidCharacterError == "InvalidCharacterError"
atob(s) ==
    CASE s = "dXNlcjpwYXNz" -> "user:pass"
      [] s = "dXNlcjp3cm9uZw==" -> "user:wrong"
      [] OTHER -> InvalidCharacterError

\* credentials.split(':')
SplitColon(s) ==
    CASE s = "user:pass" -> <<"user", "pass">>
      [] s = "user:wrong" -> <<"user", "wrong">>
      [] OTHER -> <<s, "undefined">>

\* index.ts lines 165-170 / part_007 lines 79-84: isValidBasicAuth.  The
\* scheme, authHeader.split(' ')[0], is not looked at.  atob is called outside
\* every try block: its exception leaves fetch.
isValidBasicAuthThrows(authHeader) == atob(authHeader.cred) = InvalidCharacterError
isValidBasicAuth(authHeader) ==
    LET base64Credentials == authHeader.cred
        credentials == atob(base64Credentials)
        pair == SplitColon(credentials)
    IN  pair[1] = AUTH_USER /\ pair[2] = AUTH_PASS

\* The requests: a POST with the right Basic credentials and any body; a POST
\* or GET with any header, carrying a new fix.
Requests(c) ==
    {[method |-> "POST", auth |-> BasicRight, json |-> j] :
        j \in {Invalid} \cup Bodies(c) \cup WithId(c)}
    \cup {[method |-> m, auth |-> h, json |-> NewFix(c)] :
            m \in {"POST", "GET"}, h \in AuthHeaders}

InFlight(w) == pc[w] \notin {"idle", "done"}

Respond(w, status) ==
    /\ pc' = [pc EXCEPT ![w] = "done"]
    /\ resp' = [resp EXCEPT ![w] = status]

---------------------------------------------------------------------------
(* Initial state *)

\* The batch cleanup is not running; the archive worker is not running.
CleanupOff ==
    [phase |-> "off", input |-> <<>>, pos |-> 0, kept |-> <<>>, runs |-> <<>>,
     replayed |-> 0]

\* A Date: the year, the month as getUTCMonth gives it (0..11) and the day of
\* the month.  null is NoDate.
Date(year, month, day) == [year |-> year, month |-> month, day |-> day]
NoDate == Date(Null, Null, Null)

\* `written` lists the months the runs have archived, in the order of the
\* runs.
ArchiveOff ==
    [phase |-> "off", now |-> NoDate, bucket |-> {}, keys |-> {},
     target |-> NoDate, runs |-> 0, puts |-> 0, written |-> <<>>]

\* The map worker (app), the reporter and the distance function are not
\* running.
AppOff == [phase |-> "off"]
ReporterOff == [phase |-> "off"]
DistOff == [phase |-> "off"]

Init ==
    /\ deployed \in {"table", "view"}
    /\ \E k \in SeedSizes :
          /\ locations = Seed(k)
          /\ seq = k
          /\ clock = k
    /\ started = 0
    /\ pc = [w \in Workers |-> "idle"]
    /\ body = [w \in Workers |-> NoBody]
    /\ window = [w \in Workers |-> <<>>]
    /\ decision = [w \in Workers |-> "none"]
    /\ target = [w \in Workers |-> 0]
    /\ wrote = [w \in Workers |-> 0]
    /\ resp = [w \in Workers |-> 0]
    /\ store0 = [w \in Workers |-> {}]
    /\ cleanup = CleanupOff
    /\ archive = ArchiveOff
    /\ app = AppOff
    /\ reporter = ReporterOff
    /\ dist = DistOff
    /\ typedBody = [w \in Workers |-> NoBody]

---------------------------------------------------------------------------
(* The worker: fetch *)

\* A slip: a body that does not parse is taken for an empty object.
Receive_lenient(w, req) ==
    /\ pc[w] = "idle"
    /\ started < MaxReq
    /\ started' = started + 1
    /\ store0' = [store0 EXCEPT ![w] = locations]
    /\ IF req.method # "POST" THEN
          /\ Respond(w, 405)
          /\ UNCHANGED <<body, typedBody, clock>>
       ELSE IF req.auth = NoHeader THEN
          /\ Respond(w, 401)
          /\ UNCHANGED <<body, typedBody, clock>>
       ELSE IF isValidBasicAuthThrows(req.auth) THEN
          /\ Respond(w, Exception)
          /\ UNCHANGED <<body, typedBody, clock>>
       ELSE IF ~isValidBasicAuth(req.auth) THEN
          /\ Respond(w, 401)
          /\ UNCHANGED <<body, typedBody, clock>>
       ELSE
          /\ typedBody' = [typedBody EXCEPT ![w] = req.json]
          /\ body' = [body EXCEPT ![w] =
                        IF req.json = Invalid THEN NoBody ELSE cleanBody(req.json)]
          /\ clock' = IF req.json.tst > clock THEN req.json.tst ELSE clock
          /\ pc' = [pc EXCEPT ![w] = IF deployed = "table" THEN "select" ELSE "view"]
          /\ UNCHANGED resp
    /\ UNCHANGED <<cleanup, archive, app, reporter, dist, deployed, locations, seq, window, decision,
                   target, wrote>>

\* index.ts / part_007 lines 22-58: method check, Basic auth, JSON parse and
\* allow-list; a request that passes issues its first store operation.
Receive(w, req) ==
    /\ pc[w] = "idle"
    /\ started < MaxReq
    /\ started' = started + 1
    /\ store0' = [store0 EXCEPT ![w] = locations]
    /\ IF req.method # "POST" THEN
          /\ Respond(w, 405)
          /\ UNCHANGED <<body, typedBody, clock>>
       ELSE IF req.auth = NoHeader THEN
          /\ Respond(w, 401)
          /\ UNCHANGED <<body, typedBody, clock>>
       ELSE IF isValidBasicAuthThrows(req.auth) THEN
          /\ Respond(w, Exception)
          /\ UNCHANGED <<body, typedBody, clock>>
       ELSE IF ~isValidBasicAuth(req.auth) THEN
          /\ Respond(w, 401)
          /\ UNCHANGED <<body, typedBody, clock>>
       ELSE IF req.json = Invalid THEN
          /\ Respond(w, 400)
          /\ UNCHANGED <<body, typedBody, clock>>
       ELSE
          /\ typedBody' = [typedBody EXCEPT ![w] = req.json]
          /\ body' = [body EXCEPT ![w] = cleanBody(req.json)]
          /\ clock' = IF req.json.tst > clock THEN req.json.tst ELSE clock
          /\ pc' = [pc EXCEPT ![w] = IF deployed = "table" THEN "select" ELSE "view"]
          /\ UNCHANGED resp
    /\ UNCHANGED <<cleanup, archive, app, reporter, dist, deployed, locations, seq, window, decision,
                   target, wrote>>

Start(w) == \E req \in Requests(clock) : Receive(w, req)

\* index.ts lines 62-143: the select returns, the worker classifies and
\* issues the update or falls through to the insert.
Select(w) ==
    /\ pc[w] = "select"
    /\ \E rows \in SelectLastLocations(locations, body[w]) :
          LET d == WorkerDecision(body[w], rows)
          IN  /\ window' = [window EXCEPT ![w] = rows]
              /\ decision' = [decision EXCEPT ![w] = d.op]
              /\ target' = [target EXCEPT ![w] = d.id]
              /\ pc' = [pc EXCEPT ![w] = d.op]
    /\ UNCHANGED <<typedBody, cleanup, archive, app, reporter, dist, deployed, locations, seq, clock, started, body, wrote, resp, store0>>

\* A slip: the update waits until no other call is in flight.
Update_locked(w) ==
    /\ pc[w] = "update"
    /\ \A v \in Workers \ {w} : pc[v] \in {"idle", "done"}
    /\ KeyFree(locations, target[w], IdOf(body[w], target[w]))
    /\ locations' = UpdateById(locations, target[w], body[w])
    /\ wrote' = [wrote EXCEPT ![w] = IdOf(body[w], target[w])]
    /\ Respond(w, 200)
    /\ UNCHANGED <<typedBody, cleanup, archive, app, reporter, dist, deployed, seq, clock, started, body, window, decision, target, store0>>

\* index.ts lines 129-140: .update(cleanBody).eq('id', lastLocation.id)
Update(w) ==
    /\ pc[w] = "update"
    /\ KeyFree(locations, target[w], IdOf(body[w], target[w]))
    /\ locations' = UpdateById(locations, target[w], body[w])
    /\ wrote' = [wrote EXCEPT ![w] = IdOf(body[w], target[w])]
    /\ Respond(w, 200)
    /\ UNCHANGED <<typedBody, cleanup, archive, app, reporter, dist, deployed, seq, clock, started, body, window, decision, target, store0>>

\* index.ts lines 147-157: .insert(cleanBody); id is nextval of the serial.
Insert(w) ==
    /\ pc[w] = "insert"
    /\ KeyFree(locations, 0, IdOf(body[w], seq + 1))
    /\ seq' = IF body[w].id = Undef THEN seq + 1 ELSE seq
    /\ locations' = InsertNew(locations, IdOf(body[w], seq + 1), body[w])
    /\ wrote' = [wrote EXCEPT ![w] = IdOf(body[w], seq + 1)]
    /\ Respond(w, 200)
    /\ UNCHANGED <<typedBody, cleanup, archive, app, reporter, dist, deployed, clock, started, body, window, decision, target, store0>>

\* universal.sql lines 74-146 behind part_007 lines 60-71: the insert into
\* locations_no_dups runs the trigger, one statement in one transaction.
InsertNoDups(w) ==
    /\ pc[w] = "view"
    /\ LET new == NewRow(Null, body[w])
       IN  \E recs \in TriggerRecentLocations(locations, new) :
              LET d == TriggerDecision(new, recs)
              IN  /\ window' = [window EXCEPT ![w] = recs]
                  /\ decision' = [decision EXCEPT ![w] = d.op]
                  /\ target' = [target EXCEPT ![w] = d.id]
                  /\ IF d.op = "update" THEN
                        /\ locations' = DeleteInsert(locations, d.id, body[w])
                        /\ wrote' = [wrote EXCEPT ![w] = d.id]
                        /\ seq' = seq
                     ELSE
                        /\ locations' = InsertNew(locations, seq + 1, body[w])
                        /\ wrote' = [wrote EXCEPT ![w] = seq + 1]
                        /\ seq' = seq + 1
    /\ Respond(w, 200)
    /\ UNCHANGED <<typedBody, cleanup, archive, app, reporter, dist, deployed, clock, started, body, store0>>

\* Slips in the handling of a store error: the worker answers 200; the worker
\* goes on to the insert after a failed select.
StoreError_silent(w) ==
    /\ pc[w] \in {"select", "update", "insert", "view"}
    /\ Respond(w, 200)
    /\ UNCHANGED <<typedBody, cleanup, archive, app, reporter, dist, deployed, locations, seq, clock, started, body, window,
                   decision, target, wrote, store0>>

StoreError_resume(w) ==
    /\ pc[w] \in {"select", "update", "insert", "view"}
    /\ pc' = [pc EXCEPT ![w] = IF pc[w] = "select" THEN "insert" ELSE "done"]
    /\ resp' = [resp EXCEPT ![w] = 500]
    /\ UNCHANGED <<typedBody, cleanup, archive, app, reporter, dist, deployed, locations, seq, clock, started, body, window,
                   decision, target, wrote, store0>>

\* A store operation reports an error: index.ts lines 71-74, 134-137,
\* 151-154, part_007 lines 65-68.
StoreError(w) ==
    /\ pc[w] \in {"select", "update", "insert", "view"}
    /\ Respond(w, 500)
    /\ UNCHANGED <<typedBody, cleanup, archive, app, reporter, dist, deployed, locations, seq, clock, started, body, window,
                   decision, target, wrote, store0>>

\* A slip: the rows written before the error stay.
Rollback_none(before, partial) == partial

\* What a statement that raised an error leaves of the rows it had already
\* written: the statement runs the trigger inside its transaction, which is
\* rolled back.
Rollback(before, partial) == before

\* universal.sql lines 94-143 behind part_007 lines 65-68: the insert into
\* locations_no_dups raises an error after the trigger has read the window
\* and decided, in the coalesce branch after its DELETE (line 131) and before
\* its INSERT (line 134) is done, in the insert branch before or after
\* nextval (line 138), whose effect on the sequence is not rolled back; the
\* worker answers 500.
TriggerError(w) ==
    /\ pc[w] = "view"
    /\ LET new == NewRow(Null, body[w])
       IN  \E recs \in TriggerRecentLocations(locations, new) :
              LET d == TriggerDecision(new, recs)
                  partial == IF d.op = "update"
                             THEN {r \in locations : r.id # d.id}
                             ELSE locations
              IN  /\ window' = [window EXCEPT ![w] = recs]
                  /\ decision' = [decision EXCEPT ![w] = d.op]
                  /\ target' = [target EXCEPT ![w] = d.id]
                  /\ locations' = Rollback(locations, partial)
                  /\ seq' \in (IF d.op = "insert" THEN {seq, seq + 1} ELSE {seq})
    /\ Respond(w, 500)
    /\ UNCHANGED <<typedBody, cleanup, archive, app, reporter, dist, deployed, clock, started, body, wrote, store0>>

\* The request-scoped task ends; nothing of it is kept.
Finish(w) ==
    /\ pc[w] = "done"
    /\ pc' = [pc EXCEPT ![w] = "idle"]
    /\ body' = [body EXCEPT ![w] = NoBody]
    /\ window' = [window EXCEPT ![w] = <<>>]
    /\ decision' = [decision EXCEPT ![w] = "none"]
    /\ target' = [target EXCEPT ![w] = 0]
    /\ wrote' = [wrote EXCEPT ![w] = 0]
    /\ resp' = [resp EXCEPT ![w] = 0]
    /\ store0' = [store0 EXCEPT ![w] = {}]
    /\ typedBody' = [typedBody EXCEPT ![w] = NoBody]
    /\ UNCHANGED <<cleanup, archive, app, reporter, dist, deployed, locations, seq, clock, started>>

Next ==
    \E w \in Workers :
        \/ Start(w)
        \/ Select(w)
        \/ Update(w)
        \/ Insert(w)
        \/ InsertNoDups(w)
        \/ StoreError(w)
        \/ TriggerError(w)
        \/ Finish(w)

Spec == Init /\ [][Next]_vars

\* Sequential ingestion: one worker takes the requests one after the other.
NextSeq ==
    \/ Start("w1")
    \/ Select("w1")
    \/ Update("w1")
    \/ Insert("w1")
    \/ InsertNoDups("w1")
    \/ StoreError("w1")
    \/ TriggerError("w1")
    \/ Finish("w1")

SpecSeq == Init /\ [][NextSeq]_vars

\* Sequential ingestion where the fix times of every tracker increase
\* strictly: a request carries a fix time later than all fix times sent or
\* stored before, but for the first request, which may carry any fix time
\* when no row of its tracker is stored.
StartIncreasing(w) ==
    \E req \in {q \in Requests(clock) :
                   \/ q.json.tst = clock + 1
                   \/ /\ started = 0
                      /\ q.json.tst # Undef
                      /\ \A r \in locations : r.tid # q.json.tid} :
        Receive(w, req)

NextIncreasing ==
    \/ StartIncreasing("w1")
    \/ Select("w1")
    \/ Update("w1")
    \/ Insert("w1")
    \/ InsertNoDups("w1")
    \/ StoreError("w1")
    \/ TriggerError("w1")
    \/ Finish("w1")

SpecIncreasing == Init /\ [][NextIncreasing]_vars

\* New fixes without a tracker: no "tid" key, or "tid": null.
Untracked(c) ==
    {[tid |-> t, lat |-> la, lon |-> 0, tst |-> c + 1, id |-> Undef] :
        t \in {"undefined", "null"}, la \in Lats}

\* The rows of k earlier fixes at Home whose column tid has the value tid.
SeedOf(tid, k) == {Row(i, tid, Home, 0, i) : i \in 1..k}

\* The storage-layer procedure alone: inserts into locations_no_dups of
\* fixes with and without a tracker, into a store that holds rows of tracker
\* "AB" or rows without a tracker.
StartUntracked(w) ==
    \E b \in Untracked(clock) \cup {NewFix(clock)} :
        Receive(w, [method |-> "POST", auth |-> BasicRight, json |-> b])

InitUntracked ==
    /\ deployed = "view"
    /\ \E k \in SeedSizes, t \in {"null", "AB"} :
          /\ locations = SeedOf(t, k)
          /\ seq = k
          /\ clock = k
    /\ started = 0
    /\ pc = [w \in Workers |-> "idle"]
    /\ body = [w \in Workers |-> NoBody]
    /\ typedBody = [w \in Workers |-> NoBody]
    /\ window = [w \in Workers |-> <<>>]
    /\ decision = [w \in Workers |-> "none"]
    /\ target = [w \in Workers |-> 0]
    /\ wrote = [w \in Workers |-> 0]
    /\ resp = [w \in Workers |-> 0]
    /\ store0 = [w \in Workers |-> {}]
    /\ cleanup = CleanupOff
    /\ archive = ArchiveOff
    /\ app = AppOff
    /\ reporter = ReporterOff
    /\ dist = DistOff

NextUntracked ==
    \/ StartUntracked("w1")
    \/ InsertNoDups("w1")
    \/ StoreError("w1")
    \/ TriggerError("w1")
    \/ Finish("w1")

SpecUntracked == InitUntracked /\ [][NextUntracked]_vars

---------------------------------------------------------------------------
(* The Batch Cleanup Engine (NerdTrackerCleanup), and the replay of an export
   through the live ingestion path *)

\* The fixes of an export: tracker "AB" at Home, 100 m north of it, 99.89 m
\* south of it and 300 m north of it, tracker "BC" at Home.
ExportChoices ==
    {<<"AB", Home>>, <<"AB", Home + TsEdge>>, <<"AB", Home - PgEdge>>,
     <<"AB", Home + 3 * TsEdge>>, <<"BC", Home>>}

\* An export starts with no row or with MIN_LOCATIONS_IN_RANGE - 1 fixes of
\* tracker "AB" at Home.
ExportPrefixes == {0, MIN_LOCATIONS_IN_RANGE - 1}

\* The exports that end with n freely chosen rows: ids and fix times count
\* from 1, in time order.
Exports(n) ==
    {[i \in 1..(k + n) |->
        IF i <= k THEN Row(i, "AB", Home, 0, i)
                  ELSE Row(i, c[i - k][1], c[i - k][2], 0, i)] :
        k \in ExportPrefixes, c \in [1..n -> ExportChoices]}

\* distance <= HANGOUT_SILENCE_DIST between two rows (Haversine).
RowsWithin(a, r) == Abs(a.lat - r.lat) <= HANGOUT_SILENCE_DIST * TsPerMetre

\* A slip: the window is taken from the raw preceding rows of the export.
LastKept_raw(c, t) ==
    LET s == SelectSeq(SubSeq(c.input, 1, c.pos - 1), LAMBDA r : r.tid = t)
        n == Len(s)
        k == IF n < LAST_LOCATIONS_COUNT THEN n ELSE LAST_LOCATIONS_COUNT
    IN  [i \in 1..k |-> s[n + 1 - i]]

\* The last LAST_LOCATIONS_COUNT rows of tracker t kept so far, most recent
\* first.
LastKept(c, t) ==
    LET s == SelectSeq(c.kept, LAMBDA r : r.tid = t)
        n == Len(s)
        k == IF n < LAST_LOCATIONS_COUNT THEN n ELSE LAST_LOCATIONS_COUNT
    IN  [i \in 1..k |-> s[n + 1 - i]]

\* The predicate of the live classifier on a row and a window.
IsHangout(row, W) ==
    /\ W # <<>>
    /\ RowsWithin(row, W[1])
    /\ Cardinality({i \in 1..Len(W) : RowsWithin(row, W[i])}) >= MIN_LOCATIONS_IN_RANGE

\* The open hangout run of tracker t in the report, if any.
OpenRun(runs, t) == {i \in 1..Len(runs) : runs[i].open /\ runs[i].kept.tid = t}

\* A slip: the removed row is not listed in the report.
Collapse_unlisted(runs, first, row) == runs

\* The row is removed: it joins the open run of its tracker, or starts a run
\* whose kept row is `first`.
Collapse(runs, first, row) ==
    IF OpenRun(runs, row.tid) # {}
    THEN LET i == CHOOSE j \in OpenRun(runs, row.tid) : TRUE
         IN  [runs EXCEPT ![i].removed = Append(@, row)]
    ELSE Append(runs, [kept |-> first, removed |-> <<row>>, open |-> TRUE])

\* The row is kept: the open run of its tracker ends.
CloseRun(runs, t) ==
    [i \in 1..Len(runs) |->
        IF runs[i].kept.tid = t THEN [runs[i] EXCEPT !.open = FALSE] ELSE runs[i]]

\* The next row of the export is classified against the rows kept so far.
BatchStep ==
    /\ cleanup.phase = "pass"
    /\ cleanup.pos <= Len(cleanup.input)
    /\ LET row == cleanup.input[cleanup.pos]
           W == LastKept(cleanup, row.tid)
       IN  cleanup' =
              IF IsHangout(row, W)
              THEN [cleanup EXCEPT !.pos = @ + 1,
                                   !.runs = Collapse(@, W[1], row)]
              ELSE [cleanup EXCEPT !.pos = @ + 1,
                                   !.kept = Append(@, row),
                                   !.runs = CloseRun(@, row.tid)]
    /\ UNCHANGED <<typedBody, archive, app, reporter, dist, deployed, locations, seq, clock, started, pc, body,
                   window, decision, target, wrote, resp, store0>>

\* The pass is over: the cleaned export and the report are written.
BatchEnd ==
    /\ cleanup.phase = "pass"
    /\ cleanup.pos > Len(cleanup.input)
    /\ cleanup' = [cleanup EXCEPT !.phase = "replay"]
    /\ UNCHANGED <<typedBody, archive, app, reporter, dist, deployed, locations, seq, clock, started, pc, body,
                   window, decision, target, wrote, resp, store0>>

\* The payload that reports the fix of an exported row.
PayloadOf(r) ==
    [tid |-> r.tid, lat |-> r.lat, lon |-> r.lon, tst |-> r.tst, id |-> Undef]

\* The next fix of the export is ingested through the live path.
ReplayFix ==
    /\ cleanup.phase = "replay"
    /\ cleanup.replayed < Len(cleanup.input)
    /\ \E s \in IngestOn([rows |-> locations, seq |-> seq],
                          PayloadOf(cleanup.input[cleanup.replayed + 1])) :
          /\ locations' = s.rows
          /\ seq' = s.seq
    /\ cleanup' = [cleanup EXCEPT !.replayed = @ + 1]
    /\ UNCHANGED <<typedBody, archive, app, reporter, dist, deployed, clock, started, pc, body, window, decision,
                   target, wrote, resp, store0>>

ReplayEnd ==
    /\ cleanup.phase = "replay"
    /\ cleanup.replayed = Len(cleanup.input)
    /\ cleanup' = [cleanup EXCEPT !.phase = "done"]
    /\ UNCHANGED <<typedBody, archive, app, reporter, dist, deployed, locations, seq, clock, started, pc, body,
                   window, decision, target, wrote, resp, store0>>

\* An export is cleaned, then replayed into an empty store.
InitBatch ==
    /\ deployed \in {"table", "view"}
    /\ locations = {}
    /\ seq = 0
    /\ clock = 0
    /\ started = 0
    /\ pc = [w \in Workers |-> "idle"]
    /\ body = [w \in Workers |-> NoBody]
    /\ window = [w \in Workers |-> <<>>]
    /\ decision = [w \in Workers |-> "none"]
    /\ target = [w \in Workers |-> 0]
    /\ wrote = [w \in Workers |-> 0]
    /\ resp = [w \in Workers |-> 0]
    /\ store0 = [w \in Workers |-> {}]
    /\ cleanup \in {[phase |-> "pass", input |-> e, pos |-> 1, kept |-> <<>>,
                      runs |-> <<>>, replayed |-> 0] : e \in Exports(MaxFix)}
    /\ archive = ArchiveOff
    /\ app = AppOff
    /\ reporter = ReporterOff
    /\ dist = DistOff
    /\ typedBody = [w \in Workers |-> NoBody]

NextBatch == BatchStep \/ BatchEnd \/ ReplayFix \/ ReplayEnd

SpecBatch == InitBatch /\ [][NextBatch]_vars

---------------------------------------------------------------------------
(* The archive worker (track-aggregator) *)

\* Date.UTC(year, month, day) and setUTCMonth for a day that every month
\* has: a month outside 0..11 carries into the year.
DateUTC(year, month, day) == Date(year + (month \div 12), month % 12, day)
setUTCMonth(d, month) == DateUTC(d.year, month, d.day)

\* A slip: the month is taken as getUTCMonth counts it, from 0.
toISOMonth_fromZero(d) == <<d.year, d.month>>

\* toISOString().slice(0, 7): "YYYY-MM", the month counted from 1.
toISOMonth(d) == <<d.year, d.month + 1>>

\* An object key "YYYY-MM<rest>": id is k.slice(0, 7).
Key(id, rest) == [id |-> id, rest |-> rest]

\* A slip: the key is made with the month as getUTCMonth counts it.
ArchiveKey_fromZero(date) == Key(toISOMonth_fromZero(date), ".json.gz")

\* index.ts line 59: `${target.toISOString().slice(0, 7)}.json.gz`
ArchiveKey(date) == Key(toISOMonth(date), ".json.gz")

\* index.ts line 7: the number of months the scan goes back
ScanLimit == 60

\* index.ts lines 7-11: the loop, from its i-th round on, with `target` at
\* date.
RECURSIVE Scan(_, _, _)
Scan(existing, date, i) ==
    IF i >= ScanLimit THEN NoDate
    ELSE IF toISOMonth(date) \notin existing THEN date
    ELSE Scan(existing, setUTCMonth(date, date.month - 1), i + 1)

\* A slip: the previous month is returned whether it is archived or not.
getNextMonthToArchive_previous(keys, now) == DateUTC(now.year, now.month - 1, 1)

\* index.ts lines 3-13
getNextMonthToArchive(keys, now) ==
    LET existing == {k.id : k \in keys}
        previous == DateUTC(now.year, now.month - 1, 1)
    IN  Scan(existing, previous, 0)

\* Months counted from year 0: the number of a Date and the "YYYY-MM" of a
\* number.
MonthNo(d) == d.year * 12 + d.month
MonthId(n) == <<n \div 12, (n % 12) + 1>>

\* The time of a run: 15 June 2025 (archive.spec.ts), 31 January 2025.
Nows == {Date(2025, 5, 15), Date(2025, 0, 31)}

\* The bucket before the first run: the archives of the k months before
\* now's, all of them or all but the one of two months ago; possibly also an
\* object of now's month, or an object of another name of the previous month.
ArchivedCounts == {0, 1, 2, ScanLimit - 1, ScanLimit, ScanLimit + 1}
Buckets(now) ==
    {({Key(MonthId(MonthNo(now) - j), ".json.gz") : j \in 1..k} \ gap) \cup extra :
        k \in ArchivedCounts,
        gap \in {{}, {Key(MonthId(MonthNo(now) - 2), ".json.gz")}},
        extra \in {{}, {Key(MonthId(MonthNo(now)), ".json.gz")},
                       {Key(MonthId(MonthNo(now) - 1), "-old.json")}}}

\* index.ts lines 26-35: a scheduled run lists the bucket and chooses the
\* month; without a month it returns.
ArchiveScheduled ==
    /\ archive.phase = "idle"
    /\ archive.runs < MaxRuns
    /\ LET keys == archive.bucket
           next == getNextMonthToArchive(keys, archive.now)
       IN  archive' = [archive EXCEPT
                          !.keys = keys,
                          !.target = next,
                          !.runs = @ + 1,
                          !.puts = 0,
                          !.phase = IF next = NoDate THEN "done" ELSE "query"]
    /\ UNCHANGED <<typedBody, cleanup, app, reporter, dist, deployed, locations, seq, clock, started, pc,
                   body, window, decision, target, wrote, resp, store0>>

\* index.ts lines 43-53: the query of the month's rows; on an error the run
\* returns.
ArchiveQuery ==
    /\ archive.phase = "query"
    /\ \E error \in BOOLEAN :
          archive' = [archive EXCEPT !.phase = IF error THEN "done" ELSE "put"]
    /\ UNCHANGED <<typedBody, cleanup, app, reporter, dist, deployed, locations, seq, clock, started, pc,
                   body, window, decision, target, wrote, resp, store0>>

\* index.ts lines 55-63: the object is put under the key of the month.
ArchivePut ==
    /\ archive.phase = "put"
    /\ archive' = [archive EXCEPT
                      !.bucket = @ \cup {ArchiveKey(archive.target)},
                      !.puts = @ + 1,
                      !.written = Append(@, archive.target),
                      !.phase = "done"]
    /\ UNCHANGED <<typedBody, cleanup, app, reporter, dist, deployed, locations, seq, clock, started, pc,
                   body, window, decision, target, wrote, resp, store0>>

\* The run is over; the next one starts from the bucket alone.
ArchiveReturn ==
    /\ archive.phase = "done"
    /\ archive' = [archive EXCEPT !.phase = "idle", !.keys = {},
                                  !.target = NoDate, !.puts = 0]
    /\ UNCHANGED <<typedBody, cleanup, app, reporter, dist, deployed, locations, seq, clock, started, pc,
                   body, window, decision, target, wrote, resp, store0>>

\* The archive worker runs on its schedule, one run after the other, within
\* one month.
InitArchive ==
    /\ deployed \in {"table", "view"}
    /\ locations = {}
    /\ seq = 0
    /\ clock = 0
    /\ started = 0
    /\ pc = [w \in Workers |-> "idle"]
    /\ body = [w \in Workers |-> NoBody]
    /\ typedBody = [w \in Workers |-> NoBody]
    /\ window = [w \in Workers |-> <<>>]
    /\ decision = [w \in Workers |-> "none"]
    /\ target = [w \in Workers |-> 0]
    /\ wrote = [w \in Workers |-> 0]
    /\ resp = [w \in Workers |-> 0]
    /\ store0 = [w \in Workers |-> {}]
    /\ cleanup = CleanupOff
    /\ archive \in {[ArchiveOff EXCEPT !.phase = "idle", !.now = n, !.bucket = B] :
                      n \in Nows, B \in UNION {Buckets(m) : m \in Nows}}
    /\ archive.bucket \in Buckets(archive.now)
    /\ app = AppOff
    /\ reporter = ReporterOff
    /\ dist = DistOff

NextArchive == ArchiveScheduled \/ ArchiveQuery \/ ArchivePut \/ ArchiveReturn

SpecArchive == InitArchive /\ [][NextArchive]_vars

---------------------------------------------------------------------------
(* The map worker (app): token, login and the paged query *)

\* The variables of the ingestion path.
ingestion ==
    <<deployed, locations, seq, clock, started, pc, body, window, decision,
      target, wrote, resp, store0, typedBody>>

\* app/src/index.ts line 1120: 10 years, in seconds
TokenLifetime == 10 * 365 * 24 * 60 * 60

\* app/src/index.ts line 628
pageSize == 1000

\* JSON.stringify and btoa of the token: the text of an object, the base64
\* form of a text.  NotJSON is a text that is not the text of an object,
\* NotBase64 a string that is not base64: JSON.parse and atob throw on them.
Stringify(object) == [json |-> object, valid |-> TRUE]
btoa(text) == [base64 |-> text, valid |-> TRUE]
NotJSON == [json |-> [exp |-> 0], valid |-> FALSE]
NotBase64 == [base64 |-> NotJSON, valid |-> FALSE]

\* JSON.parse(atob(payloadBase64)) throws.
ParseThrows(payloadBase64) == ~payloadBase64.valid \/ ~payloadBase64.base64.valid
\* JSON.parse(atob(payloadBase64)), when it does not throw.
Parse(payloadBase64) == payloadBase64.base64.json

\* A token "<payload>.<signature>", as token.split('.') gives it.
Token(payloadBase64, signatureBase64) == <<payloadBase64, signatureBase64>>

\* app/src/index.ts lines 1116-1123: generateToken, at time t (seconds)
generateToken(secret, t) ==
    LET payload == [exp |-> t + TokenLifetime]
    IN  Token(btoa(Stringify(payload)), btoa(secret))

\* A slip: the signature part is compared with the secret.
isValidToken_signed(token, secret, t) ==
    LET payloadBase64 == token[1]
    IN  /\ ~ParseThrows(payloadBase64)
        /\ Parse(payloadBase64).exp > t
        /\ token[2] = btoa(secret)

\* app/src/index.ts lines 1125-1135: isValidToken, at time t; an exception of
\* atob or JSON.parse is caught and gives false.
isValidToken(token, secret, t) ==
    LET payloadBase64 == token[1]
    IN  /\ ~ParseThrows(payloadBase64)
        /\ Parse(payloadBase64).exp > t

\* env.JWT_SECRET and the secrets a token may have been made with.
Secrets == {"s3cr3t", "bad"}

\* The times of a request: the second in which a token made at time 0
\* expires, and the two seconds after it.
AppNows == {TokenLifetime, TokenLifetime + 1, TokenLifetime + 2}
IssueTimes == {0, 1, 2}

\* The cookie of a request: no token, a token of generateToken, a token with
\* a payload that is not base64 or not JSON.
NoToken == Token(NotBase64, btoa(""))
Tokens ==
    {generateToken(secret, t) : secret \in Secrets, t \in IssueTimes}
    \cup {Token(NotBase64, btoa("s3cr3t")), Token(btoa(NotJSON), btoa("s3cr3t"))}

\* env.AUTH_USERNAME, env.AUTH_PASSWORD
AUTH_USERNAME == "user"
AUTH_PASSWORD == "pass"

\* app/src/index.ts lines 1099-1114: isAuthenticated; atob is called outside
\* every try block.
isAuthenticatedThrows(authHeader) ==
    /\ authHeader.cred # "undefined" /\ authHeader.scheme = "Basic"
    /\ atob(authHeader.cred) = InvalidCharacterError
isAuthenticated(authHeader) ==
    IF authHeader.cred = "undefined" \/ authHeader.scheme # "Basic" THEN FALSE
    ELSE LET decoded == SplitColon(atob(authHeader.cred))
         IN  decoded[1] = AUTH_USERNAME /\ decoded[2] = AUTH_PASSWORD

\* The rows of the table the query reads: n rows with ids 1..n in the order
\* of their fix times; the fix time of row i is i, but for the row after
\* row `tie` (if tie > 0), which has the fix time of row `tie`.
TstOf(store, i) == IF store.tie > 0 /\ i = store.tie + 1 THEN store.tie ELSE i
Stores ==
    {[n |-> n, tie |-> k] :
        n \in {0, 1, pageSize - 1, pageSize, pageSize + 1, 2 * pageSize,
                2 * pageSize + 1},
        k \in {0, 1, pageSize}}

\* The range of a request, start and end in seconds.
Ranges == {<<1, 3 * pageSize>>, <<2, 2 * pageSize>>, <<3, 2>>}

\* The rows with start <= tst <= end are the rows FirstIn..LastIn (none when
\* LastIn < FirstIn): the first row with tst >= start is row start, or the
\* one after it when row start has the fix time of the row before it; the
\* last row with tst <= end is row end, or the one after it when that has
\* the fix time of row end.
FirstIn(store, range) ==
    LET i == IF range[1] < 1 THEN 1
             ELSE IF store.tie > 0 /\ range[1] = store.tie + 1 THEN range[1] + 1
             ELSE range[1]
    IN  IF i > store.n THEN store.n + 1 ELSE i
LastIn(store, range) ==
    LET i == IF range[2] < 1 THEN 0
             ELSE IF store.tie > 0 /\ range[2] = store.tie THEN range[2] + 1
             ELSE range[2]
    IN  IF i > store.n THEN store.n ELSE i
CountIn(store, range) ==
    IF LastIn(store, range) < FirstIn(store, range) THEN 0
    ELSE LastIn(store, range) - FirstIn(store, range) + 1

\* The id at position pos (from 1) of the result of
\* .gte('tst', start).lte('tst', end).order('tst', ascending): the two rows of
\* equal fix time come in the order the database chooses for this query.
RowAt(store, range, swap, pos) ==
    LET id == FirstIn(store, range) + pos - 1
    IN  IF swap /\ id = store.tie THEN id + 1
        ELSE IF swap /\ id = store.tie + 1 THEN id - 1
        ELSE id

\* .range(page * pageSize, (page + 1) * pageSize - 1)
PageOf(store, range, swap, page) ==
    LET count == CountIn(store, range)
        first == page * pageSize + 1
        last == IF (page + 1) * pageSize < count THEN (page + 1) * pageSize ELSE count
    IN  [j \in 1..(IF last < first THEN 0 ELSE last - first + 1) |->
            RowAt(store, range, swap, first + j - 1)]

\* The orders the database may choose: the tie matters when both rows are in
\* the range.
Swaps(store, range) ==
    IF /\ store.tie > 0 /\ store.tie + 1 <= store.n
       /\ FirstIn(store, range) <= store.tie
       /\ store.tie + 1 <= LastIn(store, range)
    THEN BOOLEAN ELSE {FALSE}

AppIdle(secret, now, store) ==
    [phase |-> "idle", secret |-> secret, now |-> now, store |-> store,
     token |-> NoToken, range |-> <<0, 0>>, page |-> 0, allData |-> <<>>,
     error |-> FALSE, status |-> 0, cookie |-> NoToken]

\* app/src/index.ts lines 569-606: the token of the cookie, else Basic
\* authentication (401, or 302 with a new token); without start and end a
\* redirect; else the query starts.
AppFetch ==
    /\ app.phase = "idle"
    /\ \E token \in Tokens \cup {NoToken}, authHeader \in AuthHeaders,
          range \in Ranges \cup {<<0, 0>>} :
          IF token = NoToken \/ ~isValidToken(token, app.secret, app.now) THEN
             IF authHeader = NoHeader THEN
                app' = [app EXCEPT !.phase = "done", !.token = token, !.status = 401]
             ELSE IF isAuthenticatedThrows(authHeader) THEN
                app' = [app EXCEPT !.phase = "done", !.token = token,
                                   !.status = Exception]
             ELSE IF ~isAuthenticated(authHeader) THEN
                app' = [app EXCEPT !.phase = "done", !.token = token, !.status = 401]
             ELSE
                app' = [app EXCEPT !.phase = "done", !.token = token, !.status = 302,
                                   !.cookie = generateToken(app.secret, app.now)]
          ELSE IF range = <<0, 0>> THEN
             app' = [app EXCEPT !.phase = "done", !.token = token, !.status = 302]
          ELSE
             app' = [app EXCEPT !.phase = "page", !.token = token, !.range = range]
    /\ UNCHANGED <<ingestion, cleanup, archive, reporter, dist>>

\* app/src/index.ts lines 632-657: one round of the while loop.
AppPage ==
    /\ app.phase = "page"
    /\ \E fetchError \in BOOLEAN, swap \in Swaps(app.store, app.range) :
          IF fetchError THEN
             app' = [app EXCEPT !.error = TRUE, !.phase = "respond"]
          ELSE
             LET fetchedData == PageOf(app.store, app.range, swap, app.page)
                 count == CountIn(app.store, app.range)
                 all == app.allData \o fetchedData
                 hasMore == ~(Len(fetchedData) < pageSize \/ Len(all) >= count)
             IN  app' = [app EXCEPT !.allData = all,
                                    !.page = @ + 1,
                                    !.phase = IF hasMore THEN "page" ELSE "respond"]
    /\ UNCHANGED <<ingestion, cleanup, archive, reporter, dist>>

\* app/src/index.ts lines 665-668 and the page that follows: 500 without
\* data, or the page with the rows fetched.
AppRespond ==
    /\ app.phase = "respond"
    /\ app' = IF app.error
              THEN [app EXCEPT !.phase = "done", !.status = 500, !.allData = <<>>]
              ELSE [app EXCEPT !.phase = "done", !.status = 200]
    /\ UNCHANGED <<ingestion, cleanup, archive, reporter, dist>>

\* A request to the map worker; the table does not change meanwhile.
InitApp ==
    /\ deployed = "table"
    /\ locations = {}
    /\ seq = 0
    /\ clock = 0
    /\ started = 0
    /\ pc = [w \in Workers |-> "idle"]
    /\ body = [w \in Workers |-> NoBody]
    /\ typedBody = [w \in Workers |-> NoBody]
    /\ window = [w \in Workers |-> <<>>]
    /\ decision = [w \in Workers |-> "none"]
    /\ target = [w \in Workers |-> 0]
    /\ wrote = [w \in Workers |-> 0]
    /\ resp = [w \in Workers |-> 0]
    /\ store0 = [w \in Workers |-> {}]
    /\ cleanup = CleanupOff
    /\ archive = ArchiveOff
    /\ reporter = ReporterOff
    /\ dist = DistOff
    /\ app \in {AppIdle(secret, now, [n |-> 1, tie |-> 0]) :
                  secret \in Secrets, now \in AppNows}
             \cup {AppIdle("s3cr3t", TokenLifetime, store) : store \in Stores}

NextApp == AppFetch \/ AppPage \/ AppRespond

SpecApp == InitApp /\ [][NextApp]_vars

---------------------------------------------------------------------------
(* The distance engine on the sphere *)

\* index.ts line 185: const R = 6371e3, in metres
R == 6371000

\* Fixed point: 1.0 is Scale.
Scale == 10000

\* Math.sin of an angle of 0..90 degrees, times Scale.
SinTable ==
    <<
      0, 175, 349, 523, 698, 872, 1045, 1219, 1392, 1564,
      1736, 1908, 2079, 2250, 2419, 2588, 2756, 2924, 3090, 3256,
      3420, 3584, 3746, 3907, 4067, 4226, 4384, 4540, 4695, 4848,
      5000, 5150, 5299, 5446, 5592, 5736, 5878, 6018, 6157, 6293,
      6428, 6561, 6691, 6820, 6947, 7071, 7193, 7314, 7431, 7547,
      7660, 7771, 7880, 7986, 8090, 8192, 8290, 8387, 8480, 8572,
      8660, 8746, 8829, 8910, 8988, 9063, 9135, 9205, 9272, 9336,
      9397, 9455, 9511, 9563, 9613, 9659, 9703, 9744, 9781, 9816,
      9848, 9877, 9903, 9925, 9945, 9962, 9976, 9986, 9994, 9998,
      10000
    >>

\* Math.sin and Math.cos of an angle in whole degrees (x * Math.PI / 180).
sin(x) ==
    LET r == x % 360
    IN  IF r <= 90 THEN SinTable[r + 1]
        ELSE IF r <= 180 THEN SinTable[180 - r + 1]
        ELSE IF r <= 270 THEN 0 - SinTable[r - 180 + 1]
        ELSE 0 - SinTable[360 - r + 1]
cos(x) == sin(90 - x)

\* The product of two numbers, rounded as IEEE 754 rounds: the same way for
\* both signs.
times(x, y) ==
    LET p == x * y
    IN  IF p < 0 THEN 0 - ((0 - p) \div Scale) ELSE p \div Scale

\* x / 2 of an angle in degrees
half(x) == IF x < 0 THEN 0 - ((0 - x) \div 2) ELSE x \div 2

\* Math.sqrt of a number of 0..1
sqrt(v) == CHOOSE r \in 0..Scale : r * r <= v * Scale /\ v * Scale < (r + 1) * (r + 1)

\* Math.atan2(y, x) for y, x >= 0, in whole degrees: the largest angle of
\* 0..90 whose tangent is at most y / x.
atan2(y, x) == Cardinality({k \in 1..90 : sin(k) * x <= cos(k) * y})

\* R * c for an angle c in degrees: R * c * pi / 180, in metres.
Metres(c) == c * (((R \div 1000) * 17453) \div 1000)

\* A slip: the sum of the latitudes in place of their difference.
HaversineOnSphere_sum(numLat1, numLon1, numLat2, numLon2) ==
    LET dphi == numLat2 + numLat1
        dlambda == numLon2 - numLon1
        a == times(sin(half(dphi)), sin(half(dphi)))
             + times(times(times(cos(numLat1), cos(numLat2)),
                           sin(half(dlambda))), sin(half(dlambda)))
        c == 2 * atan2(sqrt(a), sqrt(Scale - a))
    IN  Metres(c)

\* A slip: the cosine of the first latitude taken twice.
HaversineOnSphere_oneCos(numLat1, numLon1, numLat2, numLon2) ==
    LET dphi == numLat2 - numLat1
        dlambda == numLon2 - numLon1
        a == times(sin(half(dphi)), sin(half(dphi)))
             + times(times(times(cos(numLat1), cos(numLat1)),
                           sin(half(dlambda))), sin(half(dlambda)))
        c == 2 * atan2(sqrt(a), sqrt(Scale - a))
    IN  Metres(c)

\* index.ts lines 185-196: the Haversine formula for coordinates in whole
\* degrees, computed in the order of the code.
HaversineOnSphere(numLat1, numLon1, numLat2, numLon2) ==
    LET dphi == numLat2 - numLat1
        dlambda == numLon2 - numLon1
        a == times(sin(half(dphi)), sin(half(dphi)))
             + times(times(times(cos(numLat1), cos(numLat2)),
                           sin(half(dlambda))), sin(half(dlambda)))
        c == 2 * atan2(sqrt(a), sqrt(Scale - a))
    IN  Metres(c)

\* index.ts lines 172-197: calculateDistance for coordinates in degrees.
calculateDistanceOnSphere(lat1, lon1, lat2, lon2) ==
    LET numLat1 == Number(lat1)
        numLon1 == Number(lon1)
        numLat2 == Number(lat2)
        numLon2 == Number(lon2)
    IN  IF numLat1 = NaN \/ numLon1 = NaN \/ numLat2 = NaN \/ numLon2 = NaN
        THEN Infinity
        ELSE HaversineOnSphere(numLat1, numLon1, numLat2, numLon2)

\* index.ts line 96, for a distance in metres
isWithinRangeMetres(distance) == distance <= HANGOUT_SILENCE_DIST

\* Coordinates in degrees; NaN for what Number() does not take for a number.
Coordinates ==
    {[lat |-> lat, lon |-> lon] :
        lat \in {0 - 90, 0 - 40, 0, 40, 90, NaN},
        lon \in {0 - 180, 0 - 74, 0, 74, NaN}}
ValidCoordinate(A) == A.lat # NaN /\ A.lon # NaN

distance(A, B) == calculateDistanceOnSphere(A.lat, A.lon, B.lat, B.lon)

\* The distances of a pair of coordinates, in both orders and of each
\* coordinate to itself.
DistCalculate ==
    /\ dist.phase = "input"
    /\ dist' = [dist EXCEPT !.phase = "done",
                            !.ab = distance(dist.A, dist.B),
                            !.ba = distance(dist.B, dist.A),
                            !.aa = distance(dist.A, dist.A),
                            !.bb = distance(dist.B, dist.B)]
    /\ UNCHANGED <<ingestion, cleanup, archive, app, reporter>>

InitDistance ==
    /\ deployed = "table"
    /\ locations = {}
    /\ seq = 0
    /\ clock = 0
    /\ started = 0
    /\ pc = [w \in Workers |-> "idle"]
    /\ body = [w \in Workers |-> NoBody]
    /\ typedBody = [w \in Workers |-> NoBody]
    /\ window = [w \in Workers |-> <<>>]
    /\ decision = [w \in Workers |-> "none"]
    /\ target = [w \in Workers |-> 0]
    /\ wrote = [w \in Workers |-> 0]
    /\ resp = [w \in Workers |-> 0]
    /\ store0 = [w \in Workers |-> {}]
    /\ cleanup = CleanupOff
    /\ archive = ArchiveOff
    /\ app = AppOff
    /\ reporter = ReporterOff
    /\ dist \in {[phase |-> "input", A |-> A, B |-> B, ab |-> 0, ba |-> 0,
                  aa |-> 0, bb |-> 0] : A \in Coordinates, B \in Coordinates}

NextDistance == DistCalculate

SpecDistance == InitDistance /\ [][NextDistance]_vars

---------------------------------------------------------------------------
(* The reporter (location-reporter) *)

\* index.ts line 60: the age in seconds above which the alert is sent
ALERT_AFTER == 600

\* What JavaScript takes for true in a condition: not null, not undefined,
\* not NaN and not the number 0.
Truthy(v) == v # Null /\ v # Undef /\ v # NaN /\ v # 0

\* The time of the fix of the older row of the store.
ReportedTst == 1000

\* The stores the reporter reads: none, one or both of an older row with
\* coordinates and a second row whose lat, lon and tst are absent, 0 or a
\* number; the fix time of the second row is that of the first or later.
ReporterRows ==
    {Row(2, "AB", la, lo, ts) :
        la \in {Null, 0, Home}, lo \in {Null, 0, Home},
        ts \in {Null, 0, ReportedTst, ReportedTst + 1}}
ReporterStores ==
    {{}, {Row(1, "AB", Home, Home, ReportedTst)}}
    \cup {{r} : r \in ReporterRows}
    \cup {{Row(1, "AB", Home, Home, ReportedTst), r} : r \in ReporterRows}

\* Date.now() / 1000 of a run: 600, 601 and 602 seconds after ReportedTst.
ReporterNows ==
    {ReportedTst + ALERT_AFTER, ReportedTst + ALERT_AFTER + 1,
     ReportedTst + ALERT_AFTER + 2}

ReporterIdle(rows, now) ==
    [phase |-> "idle", rows |-> rows, now |-> now, latestRows |-> <<>>,
     latestError |-> FALSE, sent |-> FALSE, ok |-> FALSE]

\* index.ts lines 28-33: .not('tst', 'is', null).order('tst', desc).limit(1),
\* or an error.
ReporterQuery ==
    /\ reporter.phase = "idle"
    /\ \/ reporter' = [reporter EXCEPT !.latestError = TRUE, !.phase = "check"]
       \/ \E latestRows \in OrderByTstDesc({r \in reporter.rows : r.tst # Null}, 1) :
             reporter' = [reporter EXCEPT !.latestRows = latestRows,
                                          !.phase = "check"]
    /\ UNCHANGED <<ingestion, cleanup, archive, app, dist>>

\* index.ts lines 46-60 and 132-141: the run returns on an error, on no row,
\* on a row whose tst, lat or lon is not truthy, and on a fix that is at most
\* 600 seconds old; else it goes on to send the alert.
ReporterCheck ==
    /\ reporter.phase = "check"
    /\ LET latestRows == reporter.latestRows
       IN  IF reporter.latestError THEN
              reporter' = [reporter EXCEPT !.phase = "done"]
           ELSE IF /\ Len(latestRows) > 0
                   /\ Truthy(latestRows[1].tst)
                   /\ Truthy(latestRows[1].lat)
                   /\ Truthy(latestRows[1].lon)
           THEN LET lastTst == latestRows[1].tst
                    nowEpoch == reporter.now
                    secondsAgo == nowEpoch - lastTst
                IN  reporter' = [reporter EXCEPT
                                    !.phase = IF secondsAgo > ALERT_AFTER
                                              THEN "send" ELSE "done"]
           ELSE reporter' = [reporter EXCEPT !.phase = "done"]
    /\ UNCHANGED <<ingestion, cleanup, archive, app, dist>>

\* index.ts lines 112-131: the message is sent to the Telegram Bot API; a
\* response that is not ok is logged.
ReporterSend ==
    /\ reporter.phase = "send"
    /\ \E ok \in BOOLEAN :
          reporter' = [reporter EXCEPT !.sent = TRUE, !.ok = ok, !.phase = "done"]
    /\ UNCHANGED <<ingestion, cleanup, archive, app, dist>>

InitReporter ==
    /\ deployed = "table"
    /\ locations = {}
    /\ seq = 0
    /\ clock = 0
    /\ started = 0
    /\ pc = [w \in Workers |-> "idle"]
    /\ body = [w \in Workers |-> NoBody]
    /\ typedBody = [w \in Workers |-> NoBody]
    /\ window = [w \in Workers |-> <<>>]
    /\ decision = [w \in Workers |-> "none"]
    /\ target = [w \in Workers |-> 0]
    /\ wrote = [w \in Workers |-> 0]
    /\ resp = [w \in Workers |-> 0]
    /\ store0 = [w \in Workers |-> {}]
    /\ cleanup = CleanupOff
    /\ archive = ArchiveOff
    /\ app = AppOff
    /\ dist = DistOff
    /\ reporter \in {ReporterIdle(rows, now) :
                       rows \in ReporterStores, now \in ReporterNows}

NextReporter == ReporterQuery \/ ReporterCheck \/ ReporterSend

SpecReporter == InitReporter /\ [][NextReporter]_vars

---------------------------------------------------------------------------
(* Notions of the specification, used to state the claims *)

ValidRow(r) == r.lat # Null /\ r.lon # Null /\ r.tst # Null
ValidRowsOf(rows, t) == {r \in rows : ValidRow(r) /\ r.tid = t}
ValidCoords(b) == b.lat \notin {Null, Undef, NaN} /\ b.lon \notin {Null, Undef, NaN}

\* The recent window of tracker t as the specification defines it: the valid
\* rows of t by fix time descending, ties by id descending, at most k rows.
RECURSIVE MostRecentFirst(_, _)
MostRecentFirst(V, k) ==
    IF V = {} \/ k = 0 THEN <<>>
    ELSE LET m == Max({r.tst : r \in V})
             top == CHOOSE r \in V :
                        r.tst = m /\ \A q \in V : q.tst = m => q.id <= r.id
         IN  <<top>> \o MostRecentFirst(V \ {top}, k - 1)

RecentWindow(rows, t) == MostRecentFirst(ValidRowsOf(rows, t), RECENT_LOCATIONS_LIMIT)

\* distance <= maxProximityMeters, with the distance of the specification
\* (Haversine, Earth radius 6371000 m).
Within(b, r) ==
    ValidCoords(b) /\ Abs(b.lat - r.lat) <= MAX_PROXIMITY_METERS * TsPerMetre
CountWithin(b, W) == Cardinality({i \in 1..Len(W) : Within(b, W[i])})

\* Payload b is a fix newer than every row of `rows`.
Newer(b, rows) == \A r \in rows : r.tst < b.tst
RowsOf(rows, t) == {r \in rows : r.tid = t}

\* The step in which the call of worker w takes its decision.
Decides(w) == decision[w] = "none" /\ decision'[w] # "none"
\* The step in which the write of worker w commits.
Commits(w) == pc[w] \in {"update", "insert", "view"} /\ resp'[w] = 200
\* The call of worker w has ended with success.
Succeeded(w) == pc[w] = "done" /\ resp[w] = 200

---------------------------------------------------------------------------
(* Claims *)

\* C1: for every candidate with valid coordinates and every non-empty recent
\* window W of its tracker, the ingestion decides to coalesce into W[1], the
\* most recent row, exactly when W[1] is within maxProximityMeters of the
\* candidate and at least minWithinRange rows of W are; otherwise it inserts.
C1_DecisionIff ==
    [][\A w \in Workers :
          Decides(w) =>
             LET b == body[w]
                 W == RecentWindow(locations, b.tid)
             IN  (ValidCoords(b) /\ W # <<>>) =>
                    /\ decision'[w] \in {"update", "insert"}
                    /\ (decision'[w] = "update" /\ target'[w] = W[1].id)
                         <=> (Within(b, W[1]) /\ CountWithin(b, W) >= MIN_WITHIN_RANGE)]_vars

\* The store at the start of the call of worker w holds only rows of the
\* tracker of its fix: exactly 5 valid rows, each at the point P or 13 m from
\* it, and the fix is at P or 13 m from it.
CloseTo(P, lat) == Abs(lat - P) \in {0, Metres13}

FiveAtOnePoint(w) ==
    LET b == body[w]
        R0 == store0[w]
    IN  /\ ValidCoords(b)
        /\ R0 = ValidRowsOf(R0, b.tid)
        /\ Cardinality(R0) = 5
        /\ \E P \in Lats :
              /\ CloseTo(P, b.lat)
              /\ \A r \in R0 : CloseTo(P, r.lat) /\ r.lon = b.lon

\* The fix of worker w was coalesced: still 5 rows, and the row with the
\* highest id carries the coordinates and the fix time of the fix.
CoalescedIntoLast(w) ==
    LET b == body[w]
        R1 == RowsOf(locations, b.tid)
    IN  /\ Cardinality(R1) = 5
        /\ \E top \in R1 :
              /\ \A r \in R1 : r.id <= top.id
              /\ top.lat = b.lat /\ top.lon = b.lon /\ top.tst = b.tst

\* The fix times of the rows grow with their ids, and the fix is newer.
IncreasingFixTime(w) ==
    /\ \A r, q \in store0[w] : r.id < q.id => r.tst < q.tst
    /\ Newer(body[w], store0[w])

\* C2 as stated: in sequential ingestion of one tracker, once it has 5 stored
\* fixes at one point, every further fix at that point or 13 m from it is
\* coalesced: the row count stays 5 and the row with the highest id carries
\* the coordinates and the fix time of the last ingested fix.
C2_AsStated ==
    \A w \in Workers :
        (Succeeded(w) /\ FiveAtOnePoint(w)) => CoalescedIntoLast(w)

\* C2 amended: the same, for fixes ingested with strictly increasing
\* fix_time.
C2_HangoutCollapse ==
    \A w \in Workers :
        (Succeeded(w) /\ FiveAtOnePoint(w) /\ IncreasingFixTime(w))
            => CoalescedIntoLast(w)

\* The 7th fix, 13 m from the 5 stored ones, has been coalesced after the 6th.
C2_Witness ==
    \E w \in Workers :
        /\ Succeeded(w) /\ FiveAtOnePoint(w) /\ IncreasingFixTime(w)
        /\ started = 2
        /\ body[w].lat = Home + Metres13
        /\ decision[w] = "update"
        /\ Cardinality(locations) = 5

\* C3: every row of the window read for a candidate has the tracker id of
\* the candidate.
C3_WindowOfOwnTracker ==
    \A w \in Workers :
        \A i \in 1..Len(window[w]) : window[w][i].tid = body[w].tid

\* The windows the deployed ingestion may read for payload b on the rows
\* `rows`, and the decisions it may take on them.
WindowsOn(rows, b) ==
    IF deployed = "table"
    THEN SelectLastLocations(rows, b)
    ELSE TriggerRecentLocations(rows, NewRow(Null, b))

DecisionsOn(rows, b) ==
    IF deployed = "table"
    THEN {WorkerDecision(b, win) : win \in WindowsOn(rows, b)}
    ELSE {TriggerDecision(NewRow(Null, b), recs) : recs \in WindowsOn(rows, b)}

\* C4: ingestions of one tracker do not interfere with the other: a step
\* changes the rows (and so the row count) of tracker t only if it is the
\* write of a fix of t, and the decision taken for a fix of t is the one the
\* classifier takes on the rows of t alone.
C4_TrackersIndependent ==
    [][/\ \A t \in Trackers :
             RowsOf(locations', t) # RowsOf(locations, t) =>
                \E w \in Workers : Commits(w) /\ body[w].tid = t
       /\ \A w \in Workers :
             Decides(w) =>
                [op |-> decision'[w], id |-> target'[w]]
                    \in DecisionsOn(RowsOf(locations, body[w].tid), body[w])]_vars

\* The stores two calls leave when run one after the other, first b1, then
\* b2, from the store st, with the deployed ingestion.
Serial(st, b1, b2) == UNION {IngestOn(s1, b2) : s1 \in IngestOn(st, b1)}

\* Calls v and w ran concurrently on the same window snapshot and both succeeded.
Raced(v, w) ==
    /\ v # w
    /\ Succeeded(v) /\ Succeeded(w)
    /\ window[v] = window[w]
    /\ body[v].tid = body[w].tid

\* C5: two concurrent calls for one tracker never both commit an Insert
\* decided against the same window snapshot when either serial order would
\* have coalesced the second call (4 in-range rows and two in-range fixes
\* leave 5 rows, never 6).
C5_NoDoubleInsert ==
    \A v, w \in Workers :
        (Raced(v, w) /\ decision[v] = "insert" /\ decision[w] = "insert") =>
            ~ \A first \in {v, w} :
                 LET second == CHOOSE x \in {v, w} : x # first
                     alone == {r \in locations : r.id # wrote[second]}
                 IN  \A d \in DecisionsOn(alone, body[second]) : d.op = "update"

\* C6: when two concurrent calls for one tracker, each with a fix newer than
\* the stored rows, both coalesce into the same row and both report success,
\* no update is lost: the store is one that some serial order of the two
\* calls leaves.
C6_CoalesceSerializable ==
    \A v, w \in Workers :
        (/\ Raced(v, w)
         /\ decision[v] = "update" /\ decision[w] = "update"
         /\ target[v] = target[w]
         /\ store0[v] = store0[w]
         /\ Newer(body[v], store0[v]) /\ Newer(body[w], store0[w])) =>
            LET st == [rows |-> store0[v], seq |-> seq]
            IN  locations \in {s.rows : s \in Serial(st, body[v], body[w])
                                            \cup Serial(st, body[w], body[v])}

\* C7: whenever the write of an ingestion commits, the window it decided on
\* is a window the store returns at that moment.
C7_Linearizable ==
    [][\A w \in Workers :
          Commits(w) => window'[w] \in WindowsOn(locations, body[w])]_vars

\* C8: when the tracker of the candidate has no valid stored row, the
\* candidate is inserted as a new row and never coalesced: the write adds one
\* row and changes no stored row.
C8_FirstFixInserted ==
    [][\A w \in Workers :
          (Commits(w) /\ ValidRowsOf(locations, body[w].tid) = {}) =>
              /\ decision'[w] = "insert"
              /\ locations \subseteq locations'
              /\ Cardinality(locations') = Cardinality(locations) + 1]_vars

\* C9: if fewer than minWithinRange rows of the window read are within
\* maxProximityMeters of the candidate, the decision is Insert, even when the
\* most recent row is in range; in particular no fix of a tracker with fewer
\* than minWithinRange valid stored rows is coalesced.
C9_TooFewInRangeInserts ==
    [][\A w \in Workers :
          Decides(w) =>
             LET b == body[w]
             IN  (\/ CountWithin(b, window'[w]) < MIN_WITHIN_RANGE
                  \/ Cardinality(ValidRowsOf(locations, b.tid)) < MIN_WITHIN_RANGE)
                     => decision'[w] = "insert"]_vars

\* The distance the deployed classifier computes between payload b and row r,
\* and its limit, in the classifier's own scale.
DistanceBy(b, r) ==
    IF deployed = "table"
    THEN calculateDistance(Number(b.lat), Number(b.lon), Number(r.lat), Number(r.lon))
    ELSE earth_distance(Col(b.lat), Col(b.lon), r.lat, r.lon)

LimitBy ==
    IF deployed = "table"
    THEN HANGOUT_SILENCE_DIST * TsPerMetre
    ELSE MAX_PROXIMITY_METERS * PgPerMetre

\* C10: the proximity boundary is inclusive in every implementation: when
\* rows of the window lie at exactly maxProximityMeters from the candidate,
\* the decision is the one taken with those rows counted as within range,
\* both in the count and in the test of the most recent row.
C10_BoundaryInclusive ==
    [][\A w \in Workers :
          Decides(w) =>
             LET b == body[w]
                 W == window'[w]
                 inRange == {i \in 1..Len(W) : DistanceBy(b, W[i]) <= LimitBy}
             IN  (ValidCoords(b) /\ \E i \in 1..Len(W) : DistanceBy(b, W[i]) = LimitBy) =>
                    (decision'[w] = "update"
                        <=> (1 \in inRange /\ Cardinality(inRange) >= MIN_WITHIN_RANGE))]_vars

\* C11: a coalesce keeps the id of the most recent row and replaces every
\* other field of it by the candidate's: after the write, the one row with
\* that id is the row the candidate makes, a field the candidate does not
\* carry being empty, so that no field value of the overwritten fix survives.
C11_CoalesceReplacesRow ==
    [][\A w \in Workers :
          (Commits(w) /\ decision'[w] = "update") =>
              /\ target'[w] = window'[w][1].id
              /\ \A r \in locations' :
                    r.id = target'[w] => r = NewRow(target'[w], body[w])
              /\ \E r \in locations' : r.id = target'[w]]_vars

Ids(rows) == {r.id : r \in rows}
UniqueIds(rows) == \A r, q \in rows : r.id = q.id => r = q

\* C12: row ids are unique in every state of the store and assigned
\* monotonically: a step never leaves two rows with one id, and an id that
\* appears in the store is greater than every id assigned before (the ids
\* up to the value of the sequence) and is the new value of the sequence.
C12_IdsUniqueMonotonic ==
    [][/\ UniqueIds(locations')
       /\ seq' >= seq
       /\ Ids(locations') \subseteq 1..seq'
       /\ \A i \in Ids(locations') \ Ids(locations) :
             i > seq /\ \A j \in Ids(locations) : i > j]_vars

\* Two fixes were ingested after five stored ones: one was coalesced into a
\* stored row, the other inserted under a new id.
C12_Witness ==
    /\ started = 2
    /\ seq = MaxSeed + 1
    /\ Cardinality(locations) = MaxSeed + 1
    /\ \E w \in Workers : Succeeded(w) /\ decision[w] = "update"
    /\ \E r \in locations : r.id = MaxSeed + 1

\* C13: a successful ingestion performs exactly one of Insert and Coalesce:
\* the step in which its write commits adds exactly one row to the store when
\* it decided Insert and leaves the number of rows as it is when it decided
\* Coalesce; no step takes a row away.
C13_OneRowOrNone ==
    [][/\ Cardinality(locations') >= Cardinality(locations)
       /\ \A w \in Workers :
             Commits(w) =>
                /\ decision'[w] \in {"insert", "update"}
                /\ decision'[w] = "insert" =>
                      Cardinality(locations') = Cardinality(locations) + 1
                /\ decision'[w] = "update" =>
                      Cardinality(locations') = Cardinality(locations)]_vars

\* Both workers have succeeded, one with an Insert and one with a Coalesce.
C13_Witness ==
    /\ Succeeded("w1") /\ Succeeded("w2")
    /\ {decision["w1"], decision["w2"]} = {"insert", "update"}
    /\ Cardinality(locations) = Cardinality(store0["w1"]) + 1

\* The payload lacks a coordinate: the key is absent or its value is null.
MissingCoords(b) == b.lat \in {Null, Undef} \/ b.lon \in {Null, Undef}

\* C14: a candidate whose lat or lon is missing (key absent or value null) is
\* never coalesced, whatever the window holds: the decision taken for it is
\* Insert, and the step that commits its write overwrites no stored row.
C14_MissingCoordsInserted ==
    [][\A w \in Workers :
          MissingCoords(body[w]) =>
              /\ Decides(w) => decision'[w] = "insert"
              /\ Commits(w) =>
                    (decision'[w] = "insert" /\ locations \subseteq locations')]_vars

Fails(w) ==
    /\ pc[w] \in {"select", "update", "insert", "view"}
    /\ pc'[w] = "done"
    /\ resp'[w] # 200

\* C16: an ingestion call that fails before its write commits leaves the
\* store as it was: the step in which it fails adds, removes and changes no
\* row (a coalesce never leaves the old row deleted without the new one), and
\* the rows change only in the step in which the write of a call commits.
C16_FailureLeavesStore ==
    [][/\ \A w \in Workers : Fails(w) => locations' = locations
       /\ locations' # locations => \E w \in Workers : Commits(w)]_vars

\* The insert into locations_no_dups failed in the coalesce branch of the
\* trigger, and the 5 rows are as they were when the call started.
C16_Witness ==
    \E w \in Workers :
        /\ deployed = "view"
        /\ pc[w] = "done" /\ resp[w] = 500
        /\ decision[w] = "update"
        /\ Cardinality(store0[w]) = MaxSeed
        /\ locations = store0[w]

\* The call of worker w decided to coalesce and ended without the write.
CoalesceFailed(w) == pc[w] = "done" /\ decision[w] = "update" /\ wrote[w] = 0

\* The fix of payload b is stored as a row.
Persisted(b, rows) == \E r \in rows : r = NewRow(r.id, b)

C18_ErrorEndsCall ==
    [][\A w \in Workers :
          /\ Fails(w) => (resp'[w] = 500 /\ locations' = locations)
          /\ resp'[w] = 500 => (pc'[w] = "done" /\ wrote'[w] = 0)
          /\ resp[w] = 500 =>
                /\ pc'[w] \in {"done", "idle"}
                /\ wrote'[w] = 0
                /\ decision'[w] \in {decision[w], "none"}]_vars

\* The window read of the worker of index.ts failed after an earlier call.
C18_Witness ==
    \E w \in Workers :
        /\ deployed = "table" /\ started = 2
        /\ pc[w] = "done" /\ resp[w] = 500
        /\ decision[w] = "none" /\ wrote[w] = 0

\* C19: a request that reaches the parser (method POST, authorised) with a
\* body that is not parseable as JSON is answered with 400, and a call that
\* is answered with 400 has read no window, taken no decision and written
\* nothing: the store is as before.
C19_UnparseableRejected ==
    [][\A w \in Workers :
          /\ Receive(w, [method |-> "POST", auth |-> BasicRight, json |-> Invalid])
                => resp'[w] = 400
          /\ resp'[w] = 400 =>
                /\ pc'[w] = "done"
                /\ window'[w] = <<>> /\ decision'[w] = "none" /\ wrote'[w] = 0
          /\ (resp'[w] = 400 /\ resp[w] # 400) =>
                (locations' = locations /\ seq' = seq)]_vars

\* The second request had an unparseable body and was answered with 400.
C19_Witness ==
    \E w \in Workers :
        /\ resp[w] = 400 /\ pc[w] = "done" /\ started = 2
        /\ body[w] = NoBody
        /\ locations = store0[w]

\* Worker w has a request in flight: a store operation is outstanding.
Outstanding(w) == pc[w] \in {"select", "update", "insert", "view"}

\* The store operation worker w waits for can be carried out.
CanProceed(w) ==
    /\ pc[w] = "select" => ENABLED Select(w)
    /\ pc[w] = "update" => ENABLED Update(w)
    /\ pc[w] = "insert" => ENABLED Insert(w)
    /\ pc[w] = "view" => ENABLED InsertNoDups(w)

\* C20: an ingestion call for one tracker can always proceed to its commit,
\* whatever the state of a call in flight for another tracker: in no state
\* is its outstanding store operation blocked.
C20_TrackersDoNotBlock ==
    \A v, w \in Workers :
        (/\ v # w
         /\ Outstanding(v) /\ Outstanding(w)
         /\ body[v].tid # body[w].tid) => CanProceed(w)

\* Calls for two trackers are in flight, both about to write.
C20_Witness ==
    /\ Outstanding("w1") /\ Outstanding("w2")
    /\ body["w1"].tid = "AB" /\ body["w2"].tid = "BC"
    /\ pc["w1"] \in {"update", "view"}
    /\ pc["w2"] \in {"update", "insert", "view"}

\* C21: the recent window is exactly the K rows of the tracker with the
\* greatest fix_time among its rows with non-null lat, lon and fix_time, by
\* fix_time descending and, for equal fix_time, by id descending: the window
\* an ingestion reads, and so its most recent row, is determined by the
\* stored rows.
C21_WindowDetermined ==
    [][\A w \in Workers :
          Decides(w) => window'[w] = RecentWindow(locations, body[w].tid)]_vars

\* C22: no ingestion ever removes a row: an id that is in the store before a
\* step is in the store after it (the DELETE of a coalesce comes with the
\* INSERT of a row with the same id in the same step).
C22_NoRowRemoved ==
    [][Ids(locations) \subseteq Ids(locations')]_vars

\* A fix was coalesced by the trigger: its DELETE and INSERT have replaced
\* the most recent row, and every id stored before is still stored.
C22_Witness ==
    \E w \in Workers :
        /\ deployed = "view"
        /\ Succeeded(w) /\ decision[w] = "update"
        /\ locations # store0[w]
        /\ Ids(store0[w]) = Ids(locations)
        /\ Cardinality(locations) = MaxSeed

\* A fix without its id.
Fix(r) == [tid |-> r.tid, lat |-> r.lat, lon |-> r.lon, tst |-> r.tst]
Range(q) == {q[i] : i \in 1..Len(q)}
OneTracker(input) == \A i \in 1..Len(input) : input[i].tid = input[1].tid

\* C23: for every time-ordered sequence of fixes of one tracker, the batch
\* cleanup of the whole sequence keeps the same set of fixes as the replay of
\* the sequence, one fix at a time, through the live ingestion path into an
\* empty store.
C23_BatchEqualsReplay ==
    (cleanup.phase = "done" /\ OneTracker(cleanup.input)) =>
        {Fix(r) : r \in Range(cleanup.kept)} = {Fix(r) : r \in locations}

\* The rows of tracker t in the sequence q.
RowsIn(q, t) == {r \in Range(q) : r.tid = t}

\* A run of the report is well formed: its kept row is in the cleaned output
\* and is its first member, and its removed rows are exactly the rows of the
\* tracker that follow the kept row up to the last removed one.
RunKeepsFirst(c, run) ==
    LET rem == Range(run.removed)
        last == Max({r.tst : r \in rem})
    IN  /\ rem # {}
        /\ run.kept \in Range(c.kept)
        /\ rem \cap Range(c.kept) = {}
        /\ rem = {r \in RowsIn(c.input, run.kept.tid) :
                      run.kept.tst < r.tst /\ r.tst <= last}

Processed(c) == {c.input[i] : i \in 1..(c.pos - 1)}
TimesRemoved(c, r) ==
    Cardinality({<<i, j>> \in (1..Len(c.runs)) \X (1..Len(c.input)) :
                    j <= Len(c.runs[i].removed) /\ c.runs[i].removed[j] = r})
TimesKept(c, r) == Cardinality({i \in 1..Len(c.kept) : c.kept[i] = r})

\* C25: in the result of the batch cleanup every row processed is accounted
\* for exactly once, in the cleaned output or as removed in the report of
\* exactly one run, never both and never neither; the kept row of each run
\* is in the cleaned output; the input is never modified.
C25_EveryRowAccounted ==
    [][cleanup.phase # "off" =>
          /\ cleanup'.input = cleanup.input
          /\ \A r \in Processed(cleanup') :
                TimesKept(cleanup', r) + TimesRemoved(cleanup', r) = 1
          /\ \A r \in Range(cleanup'.input) \ Processed(cleanup') :
                TimesKept(cleanup', r) + TimesRemoved(cleanup', r) = 0
          /\ \A i \in 1..Len(cleanup'.runs) :
                cleanup'.runs[i].kept \in Range(cleanup'.kept)]_vars

\* The pass is over: rows of both trackers were kept and rows were removed.
C25_Witness ==
    /\ cleanup.phase = "done"
    /\ Len(cleanup.runs) = 1
    /\ Len(cleanup.runs[1].removed) >= 2
    /\ Len(cleanup.kept) + Len(cleanup.runs[1].removed) = Len(cleanup.input)
    /\ \E r \in Range(cleanup.kept) : r.tid = "BC"

\* The call of worker v committed one row and changed nothing else of the
\* store it started from, which became the store `after`.
Committed(v, after) ==
    /\ pc[v] = "done" /\ resp[v] = 200 /\ wrote[v] # 0
    /\ wrote[v] \in Ids(after)
    /\ {r \in after : r.id # wrote[v]} = {r \in store0[v] : r.id # wrote[v]}

\* Worker w ingested the payload of worker v again, after the attempt of v
\* had committed and with no other call in between.
Retried(v, w) ==
    /\ v # w
    /\ body[v] = body[w]
    /\ Committed(v, store0[w])
    /\ Committed(w, locations)

\* C26: ingesting the same payload a second time, after the first attempt
\* committed, leaves the number of stored rows equal to the number after the
\* first attempt.
C26_RetryKeepsRowCount ==
    \A v, w \in Workers :
        Retried(v, w) => Cardinality(locations) = Cardinality(store0[w])

\* The header carries valid Basic credentials: scheme Basic and the base64
\* form of AUTH_USER:AUTH_PASS.
ValidBasic(h) == h.scheme = "Basic" /\ h.cred = "dXNlcjpwYXNz"

\* The call of worker w has performed no store operation.
NoStoreAccess(w) == window[w] = <<>> /\ decision[w] = "none" /\ wrote[w] = 0

\* C27: the endpoint touches the store only for an authenticated POST: a
\* request that is not a POST is answered 405 whatever its credentials are, a
\* POST without valid Basic credentials is answered 401, and in both cases
\* the call reads and writes nothing of the store and ends.
C27_OnlyAuthenticatedPost ==
    [][\A w \in Workers :
          /\ \A h \in AuthHeaders :
                /\ Receive(w, [method |-> "GET", auth |-> h, json |-> NewFix(clock)])
                      => resp'[w] = 405
                /\ (/\ ~ValidBasic(h)
                    /\ Receive(w, [method |-> "POST", auth |-> h,
                                    json |-> NewFix(clock)]))
                      => resp'[w] = 401
          /\ (resp'[w] \in {401, 405} /\ resp[w] = 0) =>
                /\ pc'[w] = "done"
                /\ NoStoreAccess(w)'
                /\ locations' = locations /\ seq' = seq]_vars

\* C28: only allow-listed fields of the payload reach the store; id is not
\* one of them, so whatever id the client sent, the id of an inserted row is
\* the next value of the sequence and a coalesce leaves the ids of the stored
\* rows as they are.
C28_ClientCannotChooseId ==
    [][\A w \in Workers :
          Commits(w) =>
             /\ decision'[w] = "insert" =>
                   Ids(locations') = Ids(locations) \cup {seq + 1}
             /\ decision'[w] = "update" => Ids(locations') = Ids(locations)
             /\ wrote'[w] \in {target'[w], seq + 1}]_vars

\* A payload that carried the id of the first row was coalesced into the
\* most recent row, which kept its id, and one that carried an unused id was
\* inserted under the next value of the sequence.
C28_Witness ==
    \E w \in Workers :
        /\ Succeeded(w)
        /\ typedBody[w].id \in SentIds
        /\ wrote[w] # typedBody[w].id
        /\ typedBody[w].id \notin Ids(locations) \/ decision[w] = "update"

\* The months among the ScanLimit months before now's, counted back from it,
\* of which keys holds no object.
Unarchived(keys, now) ==
    {j \in 1..ScanLimit : \A k \in keys : k.id # MonthId(MonthNo(now) - j)}

\* C29: getNextMonthToArchive(keys, now) returns the first day of the most
\* recent month strictly before now's month of which keys holds no archive,
\* going back at most 60 months, and null when all 60 months are present; it
\* never returns now's month or a later one, nor a month present in keys.
C29_NextMonthToArchive ==
    archive.phase \in {"query", "put", "done"} =>
        LET a == archive
            free == Unarchived(a.keys, a.now)
        IN  IF free = {} THEN a.target = NoDate
            ELSE LET n == MonthNo(a.now) - Min(free)
                 IN  /\ a.target = Date(n \div 12, n % 12, 1)
                     /\ MonthNo(a.target) < MonthNo(a.now)
                     /\ \A k \in a.keys : k.id # MonthId(MonthNo(a.target))

\* In January, with the archives of December and November of the year
\* before, October of the year before is chosen.
C29_Witness ==
    /\ archive.phase = "query"
    /\ archive.now.month = 0
    /\ Cardinality(archive.keys) = 2
    /\ archive.target = Date(archive.now.year - 1, 9, 1)

\* C30: a scheduled run whose query succeeds writes exactly one object, under
\* the key <YYYY-MM>.json.gz of the month chosen by getNextMonthToArchive, a
\* key that was not in the bucket before the run; the bucket changes in no
\* other step, so no object is overwritten, and a run that finds no month
\* left, or whose query fails, writes nothing.
C30_ArchiveWritesOneNewKey ==
    [][LET a == archive
           b == archive'
           chosen == getNextMonthToArchive(a.keys, a.now)
           key == Key(MonthId(MonthNo(chosen)), ".json.gz")
       IN  /\ b.bucket # a.bucket => a.phase = "put"
           /\ b.phase = "put" => (a.phase = "query" /\ a.target # NoDate)
           /\ a.phase = "put" =>
                 /\ a.target = chosen
                 /\ b.bucket = a.bucket \cup {key}
                 /\ key \notin a.bucket /\ key \notin a.keys
                 /\ b.puts = 1 /\ b.phase = "done"
           /\ (a.phase = "idle" /\ b.target = NoDate) =>
                 (b.phase = "done" /\ b.puts = 0)]_vars

\* The second run of a behaviour has written the archive of a month, one more
\* month back than the first.
C30_Witness ==
    /\ archive.phase = "done" /\ archive.runs = 2 /\ archive.puts = 1
    /\ ArchiveKey(archive.target) \in archive.bucket \ archive.keys
    /\ ArchiveKey(setUTCMonth(archive.target, archive.target.month + 1))
          \in archive.keys

\* The request to the map worker passed the token check: it was not sent to
\* the login (401, or 302 with a new cookie) and did not end in an exception.
TokenAccepted ==
    \/ app.phase \in {"page", "respond"}
    \/ /\ app.phase = "done"
       /\ \/ app.status \in {200, 500}
          \/ app.status = 302 /\ app.cookie = NoToken

\* C31: token validation ignores the secret: isValidToken gives the same
\* result for every secret, and a request whose token was produced by
\* generateToken with any secret passes the token check under every
\* JWT_SECRET as long as the exp of the token lies in the future.
C31_ValidationIgnoresSecret ==
    app.phase \notin {"off", "idle"} =>
        /\ \A s1, s2 \in Secrets :
              isValidToken(app.token, s1, app.now)
                 = isValidToken(app.token, s2, app.now)
        /\ \A secret \in Secrets, t \in IssueTimes :
              (app.token = generateToken(secret, t) /\ t + TokenLifetime > app.now)
                 => TokenAccepted

\* A token made with the secret "bad" one second before now opened the query
\* of a worker whose JWT_SECRET is "s3cr3t".
C31_Witness ==
    /\ app.phase = "page"
    /\ app.secret = "s3cr3t"
    /\ \E t \in IssueTimes :
          /\ app.token = generateToken("bad", t)
          /\ t + TokenLifetime = app.now + 1

\* The sequence q lists every row of the range exactly once, in ascending
\* order of the fix time.
ExactlyOnceAscending(store, range, q) ==
    /\ Len(q) = CountIn(store, range)
    /\ {q[j] : j \in 1..Len(q)} = FirstIn(store, range)..LastIn(store, range)
    /\ \A j \in 1..(Len(q) - 1) : TstOf(store, q[j]) <= TstOf(store, q[j + 1])

\* C32: for a table that does not change during the request, the paging loop
\* of the query endpoint terminates (it asks for no more pages than the rows
\* of the range fill, plus one) and the response holds every row of the
\* requested range exactly once, in ascending order of the fix time; if a
\* page query fails the response is a 500 without data.
C32_PagingReturnsRange ==
    /\ app.page * pageSize <= CountIn(app.store, app.range) + pageSize
    /\ (app.phase = "done" /\ app.status = 200) =>
          ExactlyOnceAscending(app.store, app.range, app.allData)
    /\ (app.phase = "done" /\ app.error) =>
          (app.status = 500 /\ app.allData = <<>>)

\* C33: the distance of every valid coordinate to itself is 0, and is
\* within range.
C33_DistanceToItselfIsZero ==
    dist.phase = "done" =>
        /\ ValidCoordinate(dist.A) => dist.aa = 0 /\ isWithinRangeMetres(dist.aa)
        /\ ValidCoordinate(dist.B) => dist.bb = 0 /\ isWithinRangeMetres(dist.bb)

C33_Witness ==
    /\ dist.phase = "done"
    /\ ValidCoordinate(dist.A) /\ dist.A.lat = 40 /\ dist.A.lon = 0 - 74
    /\ dist.aa = 0
    /\ ValidCoordinate(dist.B) /\ dist.ab > 0

\* C34: the distance of two valid coordinates is the same in both orders,
\* and so is whether it is within range.
C34_DistanceSymmetric ==
    dist.phase = "done" /\ ValidCoordinate(dist.A) /\ ValidCoordinate(dist.B) =>
        /\ dist.ab = dist.ba
        /\ isWithinRangeMetres(dist.ab) = isWithinRangeMetres(dist.ba)

C34_Witness ==
    /\ dist.phase = "done"
    /\ ValidCoordinate(dist.A) /\ ValidCoordinate(dist.B)
    /\ dist.A.lat # dist.B.lat /\ dist.A.lon # dist.B.lon
    /\ dist.A.lat # 0 - dist.B.lat
    /\ dist.ab = dist.ba /\ dist.ab > 0 /\ dist.ab < Infinity

\* The rows of tracker tid that a window may hold.
Eligible(rows, tid) ==
    {r \in rows : r.tid = tid /\ r.lat # Null /\ r.lon # Null /\ r.tst # Null}

\* Row r is a most recent row of its tracker.
MostRecent(rows, r) ==
    /\ r \in Eligible(rows, r.tid)
    /\ \A o \in Eligible(rows, r.tid) : o.tst <= r.tst

\* The step is the successful write of worker w.
Writes(w) ==
    /\ pc[w] \in {"update", "insert", "view"}
    /\ pc'[w] = "done"
    /\ resp'[w] = 200

\* C35: an ingestion changes at most one stored row: a coalesce rewrites one
\* row, which is a most recent row of the tracker of the candidate, and
\* leaves every other row as it is; an insert leaves every row as it is and
\* adds one.
C35_AtMostOneRowChanges ==
    [][\A w \in Workers :
          Writes(w) =>
             IF decision'[w] = "update"
             THEN /\ \A r \in locations : r.id # target'[w] => r \in locations'
                  /\ Cardinality(locations') = Cardinality(locations)
                  /\ \E old \in locations :
                        /\ old.id = target'[w]
                        /\ old.tid = ColTid(body'[w].tid)
                        /\ MostRecent(locations, old)
             ELSE /\ locations \subseteq locations'
                  /\ Cardinality(locations') = Cardinality(locations) + 1]_vars

\* The rows of tracker tid, ordered by id, are ordered by fix time.
OrderedById(rows, tid) ==
    \A r1, r2 \in {r \in rows : r.tid = tid} : r1.id < r2.id => r1.tst < r2.tst

\* Worker w has written a row and answered 200.
Written(w) == pc[w] = "done" /\ resp[w] = 200 /\ wrote[w] # 0

\* C36: when fixes are ingested one after the other with strictly increasing
\* fix time, the row just written is the most recent row of its tracker,
\* the first row of the window of the tracker's next fix, and the rows of
\* every tracker ordered by id are ordered by fix time.
C36_WrittenRowIsMostRecent ==
    /\ \A t \in Trackers : OrderedById(locations, t)
    /\ \A w \in Workers :
          Written(w) =>
             /\ \E r \in locations :
                   /\ r.id = wrote[w]
                   /\ r.tid = body[w].tid
                   /\ \A o \in locations : o.tid = r.tid => o.tst <= r.tst
             /\ \A win \in WindowsOn(locations, body[w]) :
                   Len(win) > 0 /\ win[1].id = wrote[w]

\* C37: through the trigger a fix without tracker id is never coalesced: its
\* window is empty whatever the store holds, and it is inserted as a new
\* row beside the rows the store held.
C37_UntrackedAlwaysInserted ==
    \A w \in Workers :
        /\ deployed = "view"
        /\ Written(w)
        /\ ColTid(body[w].tid) = "null"
        => /\ window[w] = <<>>
           /\ decision[w] = "insert"
           /\ wrote[w] \notin {r.id : r \in store0[w]}
           /\ locations = store0[w] \cup {NewRow(wrote[w], body[w])}

C37_Witness ==
    /\ deployed = "view"
    /\ Written("w1")
    /\ body["w1"].tid = "undefined"
    /\ body["w1"].lat = Home
    /\ Cardinality({r \in store0["w1"] : r.tid = "null" /\ r.lat = Home}) = MaxSeed
    /\ Cardinality(locations) = MaxSeed + 1

\* The objects the bucket held before the first run.
BucketBefore(a) ==
    a.bucket \ {Key(MonthId(MonthNo(a.written[i])), ".json.gz") : i \in 1..Len(a.written)}

\* C38: the runs of one month archive months in strictly descending order,
\* each month at most once, all among the 60 months before now's, the first of
\* them the most recent month without an archive (the previous month when
\* the bucket held none); every successful run leaves one month less to
\* archive, so after at most 60 of them none is left, and a run that finds
\* none writes nothing.
C38_RunsArchiveDescending ==
    LET a == archive
        n == Len(a.written)
        before == Unarchived(BucketBefore(a), a.now)
    IN  /\ \A i \in 1..n :
              /\ MonthNo(a.written[i]) < MonthNo(a.now)
              /\ MonthNo(a.written[i]) >= MonthNo(a.now) - ScanLimit
        /\ \A i, j \in 1..n : i < j => MonthNo(a.written[i]) > MonthNo(a.written[j])
        /\ n > 0 => MonthNo(a.written[1]) = MonthNo(a.now) - Min(before)
        /\ Cardinality(Unarchived(a.bucket, a.now)) = Cardinality(before) - n
        /\ n <= ScanLimit
        /\ (a.phase = "done" /\ Unarchived(a.keys, a.now) = {}) =>
              (a.target = NoDate /\ a.puts = 0 /\ a.bucket = a.keys)

\* Two runs have archived the month of two months ago and the month of 60
\* months ago; the third run found no month left.
C38_Witness ==
    /\ archive.phase = "done" /\ archive.runs = 3
    /\ Len(archive.written) = 2
    /\ MonthNo(archive.written[1]) = MonthNo(archive.now) - 2
    /\ MonthNo(archive.written[2]) = MonthNo(archive.now) - ScanLimit
    /\ archive.target = NoDate /\ archive.puts = 0

\* The latest rows of the store by fix time, among the rows with a fix time.
LatestByFixTime(rows) ==
    {r \in rows : r.tst # Null /\ \A o \in rows : o.tst # Null => o.tst <= r.tst}

\* Row r has lat and lon, and its fix is more than 600 seconds old.
Stale(r, now) == r.lat # Null /\ r.lon # Null /\ now - r.tst > ALERT_AFTER

\* C39: a run of the reporter sends an alert if and only if the latest row
\* of the store by fix time has lat and lon and its fix time is more than 600
\* seconds before now; with no row, a latest row without coordinates, a fix
\* at most 600 seconds old or a query error it sends nothing.
C39_AlertIffStale ==
    reporter.phase = "done" =>
        LET latest == LatestByFixTime(reporter.rows)
        IN  IF reporter.latestError THEN ~reporter.sent
            ELSE /\ reporter.sent => \E r \in latest : Stale(r, reporter.now)
                 /\ (latest # {} /\ \A r \in latest : Stale(r, reporter.now))
                       => reporter.sent

====
